---- MODULE Spec2Model ----
(***************************************************************************)
(* Ledger posting of the risk-gated transfer engine.                       *)
(*                                                                         *)
(* The model follows sql/banking_phase1.sql: the tables bank_accounts,     *)
(* transfer_requests and account_ledger_entries, and the stored procedure  *)
(* execute_low_risk_transfer (the spec's PostTransfer), run by concurrent  *)
(* database sessions under PostgreSQL's READ COMMITTED row locking.        *)
(*                                                                         *)
(* Around the procedure stand the transfer orchestrator (InitiateTransfer  *)
(* and its risk dispatch) and the MFA challenge manager (CreateChallenge,  *)
(* VerifyChallenge) over the table transfer_mfa_challenges.                *)
(*                                                                         *)
(* In front of the API stand two browser clients, App.tsx and the          *)
(* UserDashboard component: their React state, their event handlers up to  *)
(* each await, and the continuations that run when a response arrives.     *)
(*                                                                         *)
(* Money is counted in quarters of 0.01, so that a p_amount with more than *)
(* two decimals (p_amount is an unconstrained NUMERIC) can be told from the *)
(* NUMERIC(18, 2) value it is rounded to when stored.                      *)
(***************************************************************************)
EXTENDS Integers, Sequences, FiniteSets, TLC

\* ------------------------------------------------------------------ bounds
NumAccounts == 2     \* rows of bank_accounts
NumTransfers == 2    \* rows of transfer_requests
NumProcs == 2        \* concurrent sessions, one call of the procedure each
MaxBalance == 1      \* largest opening balance, in units of 0.01
MaxAmount == 1       \* largest amount recorded or passed, in units of 0.01

\* Model units per 0.01: the scale of NUMERIC(18, 2) columns and variables.
Cent == 4

Accounts == 1..NumAccounts
TransferIds == 1..NumTransfers
Procs == 1..NumProcs

\* p_transfer_request_id values a caller may pass; 0 is an id with no row.
TransferIdInputs == 0..NumTransfers

\* p_amount values a caller may pass: zero, two amounts below 0.01 (0.0025 and
\* 0.005) and whole multiples of 0.01.
AmountInputs == {0, 1, Cent \div 2} \cup {k * Cent : k \in 1..MaxAmount}

\* --------------------------------------------------------------- the schema
TransferStatuses ==
    {"COMPLETED_PENDING_POSTING", "COMPLETED", "MFA_REQUIRED",
     "REJECTED_HIGH_RISK", "REJECTED_INSUFFICIENT_FUNDS", "FAILED"}

\* Statuses of the transfer rows that exist before any posting: a COMPLETED
\* row comes with ledger entries, which only the procedure writes.
InitStatuses == {"COMPLETED_PENDING_POSTING", "MFA_REQUIRED"}

EntryTypes == {"DEBIT", "CREDIT"}

VARIABLES
    balance,      \* bank_accounts.balance, committed
    transfers,    \* transfer_requests rows, committed
    ledger,       \* account_ledger_entries rows, committed, in insertion order
    lockAcct,     \* bank_accounts row locks: the holding session, 0 when free
    lockXfer,     \* transfer_requests row locks: the holding session, 0 when free
    pc,           \* each session's position in execute_low_risk_transfer
    args,         \* each session's call arguments, while its call runs
    locals,       \* each session's DECLAREd variables, while its call runs
    tx,           \* each session's uncommitted writes
    err,          \* the exception a session's call raised, "" when none
    result,       \* the JSONB a successful call returned
    opening,      \* the balances before the first call (history)
    is_active,    \* bank_accounts.is_active, committed
    challenges,   \* transfer_mfa_challenges rows by transfer_request_id, committed
    now,          \* the server clock
    request,      \* each session's API request in flight
    seed_runs,    \* committed runs of seed_demo_banking_data_for_user
    app,          \* the React state of App.tsx and its API calls in flight
    dash,         \* the React state of UserDashboard and its API calls in flight
    probe,        \* a call of validateAdminApiKey: its argument, request and result
    appState,     \* the AppStateContext reducer's state and the actions dispatched
    adminRow,     \* a transfer row of the admin panel: its risk_score and buckets
    toasts        \* ToastProvider: the toasts shown and the timers that run

\* The state of the transfer orchestrator, of the MFA challenge manager and of
\* the two browser clients, which execute_low_risk_transfer neither reads nor
\* writes.
orch == <<is_active, challenges, now, request, seed_runs, app, dash,
          probe, appState, adminRow, toasts>>

vars == <<balance, transfers, ledger, lockAcct, lockXfer, pc, args, locals, tx,
          err, result, opening, orch>>

\* ------------------------------------------------------ the browser clients
\* A piece of React state that holds no object.
null == [isNull |-> TRUE]

\* A supabase session, reduced to its access token.
SessionToken == "token"

\* The transfer id the API answers with.
TransferId == "transfer-1"

\* An API response. exists is ReceiverValidationResponse.exists; status,
\* mfa_required and force_logout are the fields of TransferInitiateResponse;
\* ok is FALSE when the fetch rejects and the awaiting handler's catch block
\* runs.
Response(ok, exists, status, mfa_required, force_logout) ==
    [ok |-> ok, exists |-> exists, status |-> status,
     mfa_required |-> mfa_required, force_logout |-> force_logout]

\* A call of lib/api.ts or of supabase.auth in flight. handler is the function that awaits it.
ApiCall(api, handler, transfer_id, account, bank, amount) ==
    [api |-> api, handler |-> handler, transfer_id |-> transfer_id,
     receiver_account_number |-> account, receiver_bank_code |-> bank,
     amount |-> amount]

\* fetchDashboard and fetchTransactionHistory, issued together.
LoadCall(handler) == ApiCall("load", handler, "", "", "", 0)

\* UserDashboard as mounted: the useState defaults, no call in flight.
\* accessToken is the prop; the parent's onLogout ends the session and with it
\* unmounts the component.
DashboardMounted ==
    [accessToken |-> SessionToken,
     sendModalOpen |-> FALSE,
     otpModalOpen |-> FALSE,
     successModalPayload |-> null,
     receiverBankCode |-> "CAPBANK001",
     receiverAccountNumber |-> "",
     amount |-> "",
     validation |-> null,
     validationLoading |-> FALSE,
     transferLoading |-> FALSE,
     pendingTransferId |-> "",
     mfaCode |-> "",
     mfaLoading |-> FALSE,
     net |-> {}]

\* App.tsx once the session has been restored: the useState defaults, and the
\* load that the effect on session?.access_token has started.
AppMounted ==
    [session |-> SessionToken,
     authLoading |-> FALSE,
     dashboard |-> null,
     receiverBankCode |-> "CAPBANK001",
     receiverAccountNumber |-> "",
     amount |-> "100",
     receiverValidation |-> null,
     validationLoading |-> FALSE,
     transferLoading |-> FALSE,
     transferError |-> "",
     transferResult |-> null,
     pendingMfaTransferId |-> "",
     mfaCode |-> "",
     mfaChallenge |-> null,
     mfaChallengeLoading |-> FALSE,
     mfaVerifyLoading |-> FALSE,
     net |-> {LoadCall("useEffect")}]

\* validateAdminApiKey not called.
NoOutcome == [network_error |-> FALSE, status |-> 0, json |-> FALSE]

NoProbe ==
    [adminApiKey |-> "", called |-> FALSE, sent |-> FALSE, outcome |-> NoOutcome,
     settled |-> FALSE, returned |-> FALSE]

\* AppStateContext's initialState, before any action is dispatched.
initialState ==
    [role |-> "guest", session |-> null, adminApiKey |-> null,
     sessionLoading |-> TRUE]

\* The rest of the frontend as mounted: no call of validateAdminApiKey, the
\* reducer's initial state, no row rendered, no toast.
InitPages ==
    /\ probe = NoProbe
    /\ appState = [state |-> initialState, dispatched |-> <<>>]
    /\ adminRow = [risk_score |-> null, rendered |-> FALSE, risk |-> "", badge |-> ""]
    /\ toasts = [list |-> <<>>, timers |-> {}, pushed |-> 0, clock |-> 0]

\* ------------------------------------------------------------- NUMERIC(18,2)
\* Assignment to a NUMERIC(18, 2) target rounds to two decimals, half away
\* from zero.
RoundHalfUp(x) ==
    LET r == x % Cent
    IN  IF 2 * r >= Cent THEN x - r + Cent ELSE x - r

Round2(x) == IF x >= 0 THEN RoundHalfUp(x) ELSE 0 - RoundHalfUp(0 - x)

\* ------------------------------------------------------- a session's writes
NoArgs == [p_transfer_request_id |-> 0, p_sender_account_id |-> 0,
           p_receiver_account_id |-> 0, p_amount |-> 0]

NoLocals == [v_sender_balance |-> 0, v_receiver_balance |-> 0,
             v_sender_after |-> 0, v_receiver_after |-> 0]

\* balances: the UPDATEs of bank_accounts in statement order; status: the
\* UPDATE of the transfer row ("" when none); entries: the INSERTs.
NoWrites == [balances |-> <<>>, status |-> "", entries |-> <<>>]

NoResult == [returned |-> FALSE]

NoRequest == [op |-> ""]

RECURSIVE ApplyBalances(_, _)
ApplyBalances(bal, writes) ==
    IF writes = <<>> THEN bal
    ELSE ApplyBalances([bal EXCEPT ![Head(writes).account] = Head(writes).balance],
                       Tail(writes))

ApplyStatus(rows, id, status) ==
    IF status = "" \/ id \notin DOMAIN rows THEN rows
    ELSE [rows EXCEPT ![id].status = status]

Released(locks, p) == [x \in DOMAIN locks |-> IF locks[x] = p THEN 0 ELSE locks[x]]

\* ------------------------------------------------ execute_low_risk_transfer
\* Faulty variant of Postable: the status check left out.
PostableAnyStatus(row) == TRUE

\* Line 140: the status in which a transfer may be posted.
Postable(row) == row.status = "COMPLETED_PENDING_POSTING"

\* Faulty variant of AccountsMatch: only the sender is compared.
AccountsMatchSenderOnly(row, s, r) == row.sender_account_id = s

\* Lines 144-145: the caller's account ids are the ones the row records.
AccountsMatch(row, s, r) ==
    row.sender_account_id = s /\ row.receiver_account_id = r

\* Faulty variant of InsufficientFunds: the funds check left out.
FundsUnchecked(sender_balance, amount) == FALSE

\* Line 165: the funds check, on the balance read under the row lock.
InsufficientFunds(sender_balance, amount) == sender_balance < amount

\* Lines 172-173: the new balances, assigned to NUMERIC(18, 2) variables.
SenderAfter(sender_balance, amount) == Round2(sender_balance - amount)

ReceiverAfter(receiver_balance, amount) == Round2(receiver_balance + amount)

\* Lines 183-217: a ledger row; the amount column is NUMERIC(18, 2).
LedgerEntry(account, id, type, amount, before, after) ==
    [account_id |-> account, transfer_request_id |-> id, entry_type |-> type,
     amount |-> Round2(amount), balance_before |-> before, balance_after |-> after]

\* Line 71: CHECK (amount > 0) of account_ledger_entries, on the stored value.
EntryAccepted(entry) == entry.amount > 0

\* Faulty variant of Raise: a block without a subtransaction, whose writes stay when
\* an exception is raised.
RaiseKeepingWrites(p, id, kind) ==
    /\ pc' = [pc EXCEPT ![p] = "handler"]
    /\ err' = [err EXCEPT ![p] = kind]
    /\ args' = [args EXCEPT ![p] = [NoArgs EXCEPT !.p_transfer_request_id = id]]
    /\ locals' = [locals EXCEPT ![p] = NoLocals]
    /\ tx' = [tx EXCEPT ![p] = NoWrites]
    /\ lockAcct' = Released(lockAcct, p)
    /\ lockXfer' = Released(lockXfer, p)
    /\ balance' = ApplyBalances(balance, tx[p].balances)
    /\ ledger' = ledger \o tx[p].entries
    /\ UNCHANGED transfers

\* An exception raised inside the procedure's BEGIN block. The block has an
\* EXCEPTION clause, so it runs in a subtransaction: the block's writes are
\* undone and the row locks it took are released before the handler runs. The
\* handler reads p_transfer_request_id and nothing else of the call's frame.
Raise(p, id, kind) ==
    /\ pc' = [pc EXCEPT ![p] = "handler"]
    /\ err' = [err EXCEPT ![p] = kind]
    /\ args' = [args EXCEPT ![p] = [NoArgs EXCEPT !.p_transfer_request_id = id]]
    /\ locals' = [locals EXCEPT ![p] = NoLocals]
    /\ tx' = [tx EXCEPT ![p] = NoWrites]
    /\ lockAcct' = Released(lockAcct, p)
    /\ lockXfer' = Released(lockXfer, p)
    /\ UNCHANGED <<balance, transfers, ledger>>

\* Lines 126-147: the amount check, SELECT ... FOR UPDATE of the transfer row
\* (which waits while another session holds the row, then reads the committed
\* row), and the checks of the row. A call that still waits for the row holds
\* nothing and has changed nothing: it is a call not yet begun.
CallWith(p, id, s, r, amt) ==
    IF amt <= 0 THEN Raise(p, id, "amount")
    ELSE IF id \notin DOMAIN transfers THEN Raise(p, id, "not_found")
    ELSE /\ lockXfer[id] = 0
         /\ IF ~Postable(transfers[id]) THEN Raise(p, id, "not_postable")
            ELSE IF ~AccountsMatch(transfers[id], s, r) THEN Raise(p, id, "mismatch")
            ELSE /\ lockXfer' = [lockXfer EXCEPT ![id] = p]
                 /\ args' = [args EXCEPT ![p] =
                       [p_transfer_request_id |-> id, p_sender_account_id |-> s,
                        p_receiver_account_id |-> r, p_amount |-> amt]]
                 /\ pc' = [pc EXCEPT ![p] = "select_sender"]
                 /\ UNCHANGED <<balance, transfers, ledger, lockAcct, locals, tx, err>>

\* A call of the procedure with arguments of the caller's choice: the function
\* is in the public schema, and nothing in it restricts who calls it or how.
Call(p) ==
    /\ pc[p] = "idle"
    /\ \E id \in TransferIdInputs, s \in Accounts, r \in Accounts, amt \in AmountInputs :
          CallWith(p, id, s, r, amt)
    /\ UNCHANGED <<result, opening, orch>>

\* Lines 149-153: SELECT balance ... FOR UPDATE of the sender's row.
SelectSender(p) ==
    LET s == args[p].p_sender_account_id
    IN  /\ pc[p] = "select_sender"
        /\ s \in DOMAIN balance => lockAcct[s] \in {0, p}
        /\ lockAcct' = IF s \in DOMAIN balance
                       THEN [lockAcct EXCEPT ![s] = p] ELSE lockAcct
        /\ locals' = IF s \in DOMAIN balance
                     THEN [locals EXCEPT ![p].v_sender_balance = balance[s]]
                     ELSE locals
        /\ pc' = [pc EXCEPT ![p] = "select_receiver"]
        /\ UNCHANGED <<balance, transfers, ledger, lockXfer, args, tx, err, result, opening, orch>>

\* Lines 155-173: SELECT balance ... FOR UPDATE of the receiver's row, the
\* check that both rows exist, the funds check and the computation of the new
\* balances. With insufficient funds the procedure UPDATEs the transfer row to
\* REJECTED_INSUFFICIENT_FUNDS and raises in the next statement (line 169):
\* that write is one of the block's writes the exception undoes.
SelectReceiver(p) ==
    LET s == args[p].p_sender_account_id
        r == args[p].p_receiver_account_id
        amt == args[p].p_amount
        vsb == locals[p].v_sender_balance
    IN  /\ pc[p] = "select_receiver"
        /\ r \in DOMAIN balance => lockAcct[r] \in {0, p}
        /\ IF s \notin DOMAIN balance \/ r \notin DOMAIN balance
           THEN Raise(p, args[p].p_transfer_request_id, "accounts_not_found")
           ELSE IF InsufficientFunds(vsb, amt)
           THEN Raise(p, args[p].p_transfer_request_id, "insufficient")
           ELSE /\ lockAcct' = [lockAcct EXCEPT ![r] = p]
                /\ locals' = [locals EXCEPT ![p] =
                      [v_sender_balance |-> vsb,
                       v_receiver_balance |-> balance[r],
                       v_sender_after |-> SenderAfter(vsb, amt),
                       v_receiver_after |-> ReceiverAfter(balance[r], amt)]]
                /\ pc' = [pc EXCEPT ![p] = "update_sender"]
                /\ UNCHANGED <<balance, transfers, ledger, lockXfer, args, tx, err>>
        /\ UNCHANGED <<result, opening, orch>>

\* Lines 175-177: UPDATE of the sender's balance.
UpdateSender(p) ==
    /\ pc[p] = "update_sender"
    /\ tx' = [tx EXCEPT ![p].balances =
                Append(@, [account |-> args[p].p_sender_account_id,
                           balance |-> locals[p].v_sender_after])]
    /\ pc' = [pc EXCEPT ![p] = "update_receiver"]
    /\ UNCHANGED <<balance, transfers, ledger, lockAcct, lockXfer, args, locals,
                   err, result, opening, orch>>

\* Lines 179-181: UPDATE of the receiver's balance.
UpdateReceiver(p) ==
    /\ pc[p] = "update_receiver"
    /\ tx' = [tx EXCEPT ![p].balances =
                Append(@, [account |-> args[p].p_receiver_account_id,
                           balance |-> locals[p].v_receiver_after])]
    /\ pc' = [pc EXCEPT ![p] = "insert_debit"]
    /\ UNCHANGED <<balance, transfers, ledger, lockAcct, lockXfer, args, locals,
                   err, result, opening, orch>>

\* Lines 183-199: INSERT of the DEBIT entry.
InsertDebit(p) ==
    LET entry == LedgerEntry(args[p].p_sender_account_id,
                             args[p].p_transfer_request_id, "DEBIT",
                             args[p].p_amount, locals[p].v_sender_balance,
                             locals[p].v_sender_after)
    IN  /\ pc[p] = "insert_debit"
        /\ IF EntryAccepted(entry)
           THEN /\ tx' = [tx EXCEPT ![p].entries = Append(@, entry)]
                /\ pc' = [pc EXCEPT ![p] = "insert_credit"]
                /\ UNCHANGED <<balance, transfers, ledger, lockAcct, lockXfer,
                               args, locals, err>>
           ELSE Raise(p, args[p].p_transfer_request_id, "check_violation")
        /\ UNCHANGED <<result, opening, orch>>

\* Lines 201-217: INSERT of the CREDIT entry.
InsertCredit(p) ==
    LET entry == LedgerEntry(args[p].p_receiver_account_id,
                             args[p].p_transfer_request_id, "CREDIT",
                             args[p].p_amount, locals[p].v_receiver_balance,
                             locals[p].v_receiver_after)
    IN  /\ pc[p] = "insert_credit"
        /\ IF EntryAccepted(entry)
           THEN /\ tx' = [tx EXCEPT ![p].entries = Append(@, entry)]
                /\ pc' = [pc EXCEPT ![p] = "set_completed"]
                /\ UNCHANGED <<balance, transfers, ledger, lockAcct, lockXfer,
                               args, locals, err>>
           ELSE Raise(p, args[p].p_transfer_request_id, "check_violation")
        /\ UNCHANGED <<result, opening, orch>>

\* Lines 223-229: the JSONB the procedure returns.
ReturnValue(p) ==
    [returned |-> TRUE,
     transfer_request_id |-> args[p].p_transfer_request_id,
     sender_balance_before |-> locals[p].v_sender_balance,
     sender_balance_after |-> locals[p].v_sender_after,
     receiver_balance_before |-> locals[p].v_receiver_balance,
     receiver_balance_after |-> locals[p].v_receiver_after]

\* Lines 219-229: UPDATE of the transfer row to COMPLETED and RETURN; the
\* session's transaction then commits: its writes become the committed rows
\* and its row locks are released.
Complete(p) ==
    /\ pc[p] = "set_completed"
    /\ balance' = ApplyBalances(balance, tx[p].balances)
    /\ transfers' = ApplyStatus(transfers, args[p].p_transfer_request_id, "COMPLETED")
    /\ ledger' = ledger \o tx[p].entries
    /\ tx' = [tx EXCEPT ![p] = NoWrites]
    /\ lockAcct' = Released(lockAcct, p)
    /\ lockXfer' = Released(lockXfer, p)
    /\ result' = [result EXCEPT ![p] = ReturnValue(p)]
    /\ pc' = [pc EXCEPT ![p] = "done"]
    /\ args' = [args EXCEPT ![p] = NoArgs]
    /\ locals' = [locals EXCEPT ![p] = NoLocals]
    /\ UNCHANGED <<err, opening, orch>>

\* Lines 233-236: the status the handler's UPDATE gives a row.
HandlerStatus(status) ==
    IF status = "COMPLETED_PENDING_POSTING" THEN "FAILED" ELSE status

\* Line 238: RAISE re-throws the exception out of the procedure. The error ends
\* the statement that called the procedure, and the transaction (or savepoint)
\* that statement ran in is rolled back with every write made in the call: the
\* rows are the rows before the handler's UPDATE.
Rethrown(before, updated) == before

\* Lines 230-238: WHEN OTHERS: the UPDATE of the transfer row, which takes the
\* row lock again (the block's lock went with the block's rollback; the UPDATE
\* waits while another session holds the row) and touches no row when the id
\* has none; then RAISE, which ends the call and releases the row.
Handler(p) ==
    LET id == args[p].p_transfer_request_id
        updated == IF id \in DOMAIN transfers
                   THEN ApplyStatus(transfers, id, HandlerStatus(transfers[id].status))
                   ELSE transfers
    IN  /\ pc[p] = "handler"
        /\ id \in DOMAIN transfers => lockXfer[id] \in {0, p}
        /\ transfers' = Rethrown(transfers, updated)
        /\ pc' = [pc EXCEPT ![p] = "failed"]
        /\ args' = [args EXCEPT ![p] = NoArgs]
        /\ locals' = [locals EXCEPT ![p] = NoLocals]
        /\ UNCHANGED <<balance, ledger, lockAcct, lockXfer, tx, err, result, opening, orch>>

\* Positions at which the session holds both account rows and a write of the
\* block is still to run.
Writing ==
    {"update_sender", "update_receiver", "insert_debit", "insert_credit",
     "set_completed"}

\* The write about to run fails for a reason of the store (an I/O error, an
\* injected fault): WHEN OTHERS catches it.
Fault(p) ==
    /\ pc[p] \in Writing
    /\ Raise(p, args[p].p_transfer_request_id, "fault")
    /\ UNCHANGED <<result, opening, orch>>

\* The session whose row lock p waits for, 0 when p does not wait.
WaitsFor(p) ==
    LET holder(locks, x) ==
            IF x \in DOMAIN locks /\ locks[x] \notin {0, p} THEN locks[x] ELSE 0
    IN  CASE pc[p] = "select_sender" -> holder(lockAcct, args[p].p_sender_account_id)
          [] pc[p] = "select_receiver" -> holder(lockAcct, args[p].p_receiver_account_id)
          [] pc[p] = "handler" -> holder(lockXfer, args[p].p_transfer_request_id)
          [] OTHER -> 0

RECURSIVE WaitReaches(_, _, _)
WaitReaches(q, p, n) ==
    IF n = 0 THEN FALSE
    ELSE LET w == WaitsFor(q)
         IN  w # 0 /\ (w = p \/ WaitReaches(w, p, n - 1))

Deadlocked(p) == WaitReaches(p, p, NumProcs)

\* PostgreSQL's deadlock detector: a session that waits in a cycle of lock
\* waits gets the error deadlock_detected in the statement that waits, which
\* WHEN OTHERS catches.
DeadlockDetected(p) ==
    /\ Deadlocked(p)
    /\ Raise(p, args[p].p_transfer_request_id, "deadlock")
    /\ UNCHANGED <<result, opening, orch>>

\* ------------------------------------------------------- the specification
Init ==
    /\ balance \in [Accounts -> {k * Cent : k \in 0..MaxBalance}]
    /\ transfers \in [TransferIds ->
                        [sender_account_id : Accounts,
                         receiver_account_id : Accounts,
                         amount : {k * Cent : k \in 1..MaxAmount},
                         status : InitStatuses]]
    /\ ledger = <<>>
    /\ lockAcct = [a \in Accounts |-> 0]
    /\ lockXfer = [t \in TransferIds |-> 0]
    /\ pc = [p \in Procs |-> "idle"]
    /\ args = [p \in Procs |-> NoArgs]
    /\ locals = [p \in Procs |-> NoLocals]
    /\ tx = [p \in Procs |-> NoWrites]
    /\ err = [p \in Procs |-> ""]
    /\ result = [p \in Procs |-> NoResult]
    /\ opening = balance
    /\ is_active = [a \in Accounts |-> TRUE]
    /\ challenges = <<>>
    /\ now = 0
    /\ request = [p \in Procs |-> NoRequest]
    /\ seed_runs = 0
    /\ app = AppMounted
    /\ dash = DashboardMounted
    /\ InitPages

Next ==
    \E p \in Procs :
        \/ Call(p)
        \/ SelectSender(p)
        \/ SelectReceiver(p)
        \/ UpdateSender(p)
        \/ UpdateReceiver(p)
        \/ InsertDebit(p)
        \/ InsertCredit(p)
        \/ Complete(p)
        \/ Handler(p)
        \/ Fault(p)
        \/ DeadlockDetected(p)

Spec == Init /\ [][Next]_vars

\* ================================================================== claims
RECURSIVE SumOver(_, _)
SumOver(f, S) ==
    IF S = {} THEN 0
    ELSE LET x == CHOOSE y \in S : TRUE
         IN  f[x] + SumOver(f, S \ {x})

TotalBalance(bal) == SumOver(bal, DOMAIN bal)

\* The ledger rows of a transfer, as positions in the ledger.
EntriesOf(rows, id) == {i \in DOMAIN rows : rows[i].transfer_request_id = id}

EntriesOfType(rows, id, type) ==
    {i \in EntriesOf(rows, id) : rows[i].entry_type = type}

Returned(p) == pc[p] \in {"done", "failed"}

\* The step in which session p's call returns with its result.
Commits(p) == pc[p] = "set_completed" /\ pc'[p] = "done"

\* The step in which an exception is raised in session p's call.
Raises(p) == pc[p] # "handler" /\ pc'[p] = "handler"

\* The step in which session p's call returns by re-throwing its exception.
Fails(p) == pc[p] = "handler" /\ pc'[p] = "failed"

\* C1: posting never creates or destroys money: in every reachable state the
\* sum of all account balances equals the sum before the first call.
C1_Conservation == TotalBalance(balance) = TotalBalance(opening)

\* What a committing call of session p leaves behind for its transfer.
C2_Completed(p) ==
    LET id == args[p].p_transfer_request_id
        s == transfers[id].sender_account_id
        r == transfers[id].receiver_account_id
        debits == EntriesOfType(ledger', id, "DEBIT")
        credits == EntriesOfType(ledger', id, "CREDIT")
    IN  /\ transfers'[id].status = "COMPLETED"
        /\ Cardinality(debits) = 1
        /\ Cardinality(credits) = 1
        /\ \A d \in debits, c \in credits :
              /\ ledger'[d].account_id = s
              /\ ledger'[c].account_id = r
              /\ ledger'[d].amount = ledger'[c].amount
              /\ ledger'[d].balance_after + ledger'[d].amount = ledger'[d].balance_before
              /\ ledger'[c].balance_after - ledger'[c].amount = ledger'[c].balance_before
              /\ balance'[s] = ledger'[d].balance_after
              /\ balance'[r] = ledger'[c].balance_after

\* C2: when a call commits and its transfer becomes COMPLETED, the ledger holds
\* one DEBIT entry on the sender and one CREDIT entry on the receiver for it,
\* with equal amounts, DEBIT.balance_after + amount = DEBIT.balance_before,
\* CREDIT.balance_after - amount = CREDIT.balance_before, and the stored
\* balances of the sender and the receiver equal those balance_after values.
C2_DebitCreditPair == [][\A p \in Procs : Commits(p) => C2_Completed(p)]_vars

\* ---------------------------------------------------------------------------
\* N transfers of one sender, each for the sender's full balance, posted
\* concurrently: every row is postable and has the same sender, session p posts
\* transfer p (so the transfers are distinct) with the row's accounts and the
\* sender's opening balance as p_amount, and no write fails.
InitSameSender ==
    /\ Init
    /\ \E a \in Accounts :
          /\ balance[a] > 0
          /\ \A t \in TransferIds :
                /\ transfers[t].sender_account_id = a
                /\ Postable(transfers[t])

FullBalanceCall(p) ==
    /\ Call(p)
    /\ pc'[p] = "select_sender"
    /\ args'[p].p_transfer_request_id = p
    /\ args'[p].p_amount = opening[args'[p].p_sender_account_id]

NextFullBalance ==
    \E p \in Procs :
        \/ FullBalanceCall(p)
        \/ SelectSender(p)
        \/ SelectReceiver(p)
        \/ UpdateSender(p)
        \/ UpdateReceiver(p)
        \/ InsertDebit(p)
        \/ InsertCredit(p)
        \/ Complete(p)
        \/ Handler(p)

SpecFullBalance == InitSameSender /\ [][NextFullBalance]_vars

\* C3: when every session has posted its transfer (N >= 2 distinct postable
\* transfers of one sender, each for the sender's full balance) and every call
\* has returned, exactly one transfer is COMPLETED and the sender was debited
\* exactly once: the ledger holds one DEBIT and one CREDIT and no more.
C3_ExactlyOneCompleted ==
    (\A p \in Procs : Returned(p)) =>
        /\ Cardinality({t \in TransferIds : transfers[t].status = "COMPLETED"}) = 1
        /\ Cardinality({p \in Procs : pc[p] = "done"}) = 1
        /\ Cardinality({i \in DOMAIN ledger : ledger[i].entry_type = "DEBIT"}) = 1
        /\ Len(ledger) = 2

\* ---------------------------------------------------------------------------
\* What a raising or returning failed call of session p leaves behind.
C4_RaiseLeavesNoTrace(p) ==
    LET id == args[p].p_transfer_request_id
        s == args[p].p_sender_account_id
        r == args[p].p_receiver_account_id
    IN  /\ balance' = balance
        /\ ledger' = ledger
        /\ balance'[s] = locals[p].v_sender_balance
        /\ pc[p] \in Writing => balance'[r] = locals[p].v_receiver_balance
        /\ EntriesOf(ledger', id) = {}
        /\ tx'[p] = NoWrites

\* C4: a call that fails after it has locked both account rows (insufficient
\* funds, a CHECK violation, a fault at any of the five writes) leaves no
\* trace: the step that raises changes no committed balance and no ledger row,
\* the two balances are the ones the call read under its locks, the ledger has
\* no entry of the transfer, none of the call's writes is left to be committed,
\* and the step in which the call returns changes no balance and no ledger row.
C4_Atomicity ==
    [][\A p \in Procs :
          /\ (Raises(p) /\ (pc[p] \in Writing \/ err'[p] = "insufficient"))
                => C4_RaiseLeavesNoTrace(p)
          /\ Fails(p) => (balance' = balance /\ ledger' = ledger /\ tx'[p] = NoWrites)
      ]_vars

\* C4 witness: a call has failed by a fault at one of its writes, and the
\* balances and the ledger are as before it.
C4_Witness ==
    \E p \in Procs :
        pc[p] = "failed" /\ err[p] = "fault" /\ balance = opening /\ ledger = <<>>

\* C5: every transfer has no ledger entry or exactly two, one DEBIT and one
\* CREDIT, and it has two exactly when it is COMPLETED.
C5_TwoEntriesOrNone ==
    \A t \in TransferIds :
        LET n == Cardinality(EntriesOf(ledger, t))
        IN  /\ n \in {0, 2}
            /\ (n = 2) <=> (transfers[t].status = "COMPLETED")
            /\ n = 2 => /\ Cardinality(EntriesOfType(ledger, t, "DEBIT")) = 1
                        /\ Cardinality(EntriesOfType(ledger, t, "CREDIT")) = 1

\* C5 witness: a COMPLETED transfer with its two entries, and a second call for
\* the same transfer that was refused.
C5_Witness ==
    \E t \in TransferIds, p \in Procs :
        /\ transfers[t].status = "COMPLETED"
        /\ Cardinality(EntriesOf(ledger, t)) = 2
        /\ pc[p] = "handler"
        /\ err[p] = "not_postable"
        /\ args[p].p_transfer_request_id = t

\* C6: no state has sessions that each hold an account row and wait for a row
\* another of them holds.
C6_NoLockCycle == \A p \in Procs : ~Deadlocked(p)

\* C7: when a call that failed for insufficient funds returns, the persisted
\* status of its transfer is REJECTED_INSUFFICIENT_FUNDS.
C7_InsufficientFundsRejected ==
    [][\A p \in Procs :
          (Fails(p) /\ err[p] = "insufficient") =>
              transfers'[args[p].p_transfer_request_id].status
                  = "REJECTED_INSUFFICIENT_FUNDS"
      ]_vars

\* C8: when a call for a COMPLETED_PENDING_POSTING transfer that failed for
\* another reason than insufficient funds returns, the persisted status of the
\* transfer is FAILED; and no call that returns by an error leaves its transfer
\* COMPLETED_PENDING_POSTING.
C8_FailureMarksFailed ==
    [][\A p \in Procs :
          LET id == args[p].p_transfer_request_id
          IN  (Fails(p) /\ id \in DOMAIN transfers) =>
                /\ (err[p] # "insufficient"
                      /\ transfers[id].status = "COMPLETED_PENDING_POSTING")
                      => transfers'[id].status = "FAILED"
                /\ transfers'[id].status # "COMPLETED_PENDING_POSTING"
      ]_vars

\* The committed transfer row named by the arguments a is postable by them.
C9_ValidCall(p, a) ==
    LET id == a.p_transfer_request_id
    IN  /\ id \in DOMAIN transfers
        /\ transfers[id].status = "COMPLETED_PENDING_POSTING"
        /\ transfers[id].sender_account_id = a.p_sender_account_id
        /\ transfers[id].receiver_account_id = a.p_receiver_account_id

\* C9: a step changes a balance or the ledger only if it is the commit of a
\* call that holds the lock of its transfer row, whose committed status is
\* COMPLETED_PENDING_POSTING and whose recorded accounts are the caller's; and a
\* call gets past its checks only for such a row (for a missing row, another
\* status or other accounts it raises).
C9_PostsOnlyPostable ==
    [][/\ (balance' # balance \/ ledger' # ledger) =>
            \E p \in Procs :
                /\ Commits(p)
                /\ C9_ValidCall(p, args[p])
                /\ lockXfer[args[p].p_transfer_request_id] = p
       /\ \A p \in Procs :
            (pc[p] = "idle" /\ pc'[p] # "idle") =>
                IF C9_ValidCall(p, args'[p]) /\ args'[p].p_amount > 0
                THEN pc'[p] = "select_sender"
                ELSE pc'[p] = "handler" /\ balance' = balance /\ ledger' = ledger
      ]_vars

\* C9 witness: a call with other accounts than the recorded ones was refused,
\* and another call has posted.
C9_Witness ==
    \E p, q \in Procs :
        err[p] = "mismatch" /\ pc[q] = "done" /\ ledger # <<>>

\* C10: every account balance is >= 0.
C10_NonNegativeBalance == \A a \in Accounts : balance[a] >= 0

\* C10 witness: an account was debited down to zero and a further debit of it
\* was refused.
C10_Witness ==
    \E a \in Accounts, p \in Procs :
        /\ opening[a] > 0
        /\ balance[a] = 0
        /\ err[p] = "insufficient"
        /\ args[p].p_transfer_request_id \in DOMAIN transfers
        /\ transfers[args[p].p_transfer_request_id].sender_account_id = a

\* ---------------------------------------------------------------------------
\* Transfer rows in any status a row can have without ledger entries (a
\* COMPLETED row comes from a posting), posted to by calls of any arguments.
TerminalStatuses ==
    {"COMPLETED", "FAILED", "REJECTED_HIGH_RISK", "REJECTED_INSUFFICIENT_FUNDS"}

InitAnyStatus ==
    /\ balance \in [Accounts -> {k * Cent : k \in 0..MaxBalance}]
    /\ transfers \in [TransferIds ->
                        [sender_account_id : Accounts,
                         receiver_account_id : Accounts,
                         amount : {k * Cent : k \in 1..MaxAmount},
                         status : TransferStatuses \ {"COMPLETED"}]]
    /\ ledger = <<>>
    /\ lockAcct = [a \in Accounts |-> 0]
    /\ lockXfer = [t \in TransferIds |-> 0]
    /\ pc = [p \in Procs |-> "idle"]
    /\ args = [p \in Procs |-> NoArgs]
    /\ locals = [p \in Procs |-> NoLocals]
    /\ tx = [p \in Procs |-> NoWrites]
    /\ err = [p \in Procs |-> ""]
    /\ result = [p \in Procs |-> NoResult]
    /\ opening = balance
    /\ is_active = [a \in Accounts |-> TRUE]
    /\ challenges = <<>>
    /\ now = 0
    /\ request = [p \in Procs |-> NoRequest]
    /\ seed_runs = 0
    /\ app = AppMounted
    /\ dash = DashboardMounted
    /\ InitPages

SpecAnyStatus == InitAnyStatus /\ [][Next]_vars

\* C11: a transfer that is COMPLETED, FAILED, REJECTED_HIGH_RISK or
\* REJECTED_INSUFFICIENT_FUNDS keeps its status in every step of every call of
\* the procedure, whatever the arguments and whether the call fails or not; and
\* a step of the procedure changes the status of a transfer only from
\* COMPLETED_PENDING_POSTING.
C11_TerminalAbsorbing ==
    [][\A t \in DOMAIN transfers :
          /\ transfers[t].status \in TerminalStatuses
                => transfers'[t].status = transfers[t].status
          /\ transfers'[t].status # transfers[t].status
                => transfers[t].status = "COMPLETED_PENDING_POSTING"
      ]_vars

\* C11 witness: every transfer is terminal, one of them COMPLETED by a call,
\* and a later call for a terminal transfer has failed and returned.
C11_Witness ==
    /\ \A t \in DOMAIN transfers : transfers[t].status \in TerminalStatuses
    /\ \E t \in DOMAIN transfers : transfers[t].status = "COMPLETED"
    /\ \E p, q \in Procs :
          pc[p] = "done" /\ pc[q] = "failed" /\ err[q] = "not_postable"

\* ===========================================================================
\* The transfer orchestrator and the MFA challenge manager. Their code is the
\* backend behind the /banking endpoints; they are modelled from sections 4.1,
\* 4.3 and 4.5 of the specification, over the tables of banking_phase1.sql and
\* transfer_mfa_challenges. A request is handled by a session of Procs; a
\* session that has called execute_low_risk_transfer stays at its result.
NumKeys == 2         \* idempotency keys a client may send
NumCodes == 2        \* one-time codes that may be generated or submitted
ChallengeTtl == 0    \* clock ticks from a challenge's creation to its expires_at
MaxNow == 1          \* last value of the clock

\* transfer_mfa_challenges.max_attempts INTEGER NOT NULL DEFAULT 3.
DefaultMaxAttempts == 3

Keys == 1..NumKeys
Codes == 1..NumCodes

\* The codes the generator of CreateChallenge gives: which code it is does not
\* matter, only whether a submitted code is the same.
FreshCodes == {1}

RiskLevels == {"LOW", "MEDIUM", "HIGH"}

\* What a call of the Risk Classifier Gateway can give: a risk level, or a
\* failure of the call.
Verdicts == RiskLevels \cup {"UNAVAILABLE"}

ChallengeStatuses == {"PENDING", "VERIFIED", "EXPIRED", "LOCKED"}

\* Amounts a client may ask to transfer: zero and whole multiples of 0.01.
TransferAmounts == {0} \cup {k * Cent : k \in 1..MaxAmount}

\* The one-way hash of a code, stored in code_hash.
CodeHash(code) == code + NumCodes

\* Section 4.1, the risk table: the action and the status of a new transfer.
ActionOf(verdict) ==
    CASE verdict = "LOW" -> "APPROVE"
      [] verdict = "MEDIUM" -> "TRIGGER_MFA"
      [] verdict = "HIGH" -> "BLOCK"
      [] OTHER -> "NULL"

StatusOf(verdict) ==
    CASE verdict = "LOW" -> "COMPLETED_PENDING_POSTING"
      [] verdict = "MEDIUM" -> "MFA_REQUIRED"
      [] verdict = "HIGH" -> "REJECTED_HIGH_RISK"
      [] OTHER -> "FAILED"

RiskLevelOf(verdict) == IF verdict \in RiskLevels THEN verdict ELSE "NULL"

\* The transfer_requests row InitiateTransfer creates.
TransferRow(s, r, amt, key, verdict) ==
    [sender_account_id |-> s, receiver_account_id |-> r, amount |-> amt,
     status |-> StatusOf(verdict), risk_level |-> RiskLevelOf(verdict),
     action |-> ActionOf(verdict), request_id |-> key]

\* Section 6: the result of InitiateTransfer and of VerifyMfaChallenge.
TransferResponse(id, row) ==
    [transfer_id |-> id, status |-> row.status,
     risk_level |-> row.risk_level, action |-> row.action,
     mfa_required |-> (row.status = "MFA_REQUIRED"),
     force_logout |-> (row.status = "REJECTED_HIGH_RISK")]

\* The transfers of a sender that carry an idempotency key.
TransfersWithKey(s, key) ==
    {t \in DOMAIN transfers :
        transfers[t].sender_account_id = s /\ transfers[t].request_id = key}

\* Requests that will each insert a transfer row.
Scored == {p \in Procs : pc[p] = "scored"}

UnchangedPosting ==
    UNCHANGED <<balance, ledger, lockAcct, lockXfer, locals, tx, err, result,
                opening, seed_runs, app, dash, probe, appState, adminRow, toasts>>

\* InitiateTransfer up to the call of the classifier: the validations and the
\* lookup of the idempotency key. The gateway is then called, and while the
\* request waits for it the request holds no lock. A transfer to the sender's
\* own account is not among the requests.
InitiateTransfer(p) ==
    /\ pc[p] = "idle"
    /\ Len(transfers) + Cardinality(Scored) < NumTransfers
    /\ \E s \in Accounts, amt \in TransferAmounts, key \in Keys :
       \E r \in (Accounts \ {s}) \cup {0} :
          IF \/ r \notin Accounts           \* AccountNotFound
             \/ ~is_active[s]             \* AccountBlocked
             \/ amt <= 0                  \* InvalidAmount
             \/ TransfersWithKey(s, key) # {}   \* answered with the stored transfer
          THEN UNCHANGED <<pc, request>>
          ELSE /\ request' = [request EXCEPT ![p] =
                     [op |-> "initiate", sender |-> s, receiver |-> r,
                      amount |-> amt, key |-> key]]
               /\ pc' = [pc EXCEPT ![p] = "scored"]
    /\ UNCHANGED <<transfers, args, is_active, challenges, now>>
    /\ UnchangedPosting

\* InitiateTransfer from the classifier's answer on: the transfer row is
\* created with the verdict, and the risk table is applied. LOW goes on to the
\* Ledger Poster; the other requests are answered.
Dispatch(p) ==
    /\ pc[p] = "scored"
    /\ \E verdict \in Verdicts :
        LET q == request[p]
            id == Len(transfers) + 1
            row == TransferRow(q.sender, q.receiver, q.amount, q.key, verdict)
        IN
        \* the UPDATE of the sender's bank_accounts row waits for the row lock
        \* a posting holds on it
        /\ verdict = "HIGH" => lockAcct[q.sender] = 0
        /\ transfers' = Append(transfers, row)
        /\ is_active' = IF verdict = "HIGH"
                        THEN [is_active EXCEPT ![q.sender] = FALSE]
                        ELSE is_active
        /\ IF verdict = "LOW"
           THEN /\ pc' = [pc EXCEPT ![p] = "call"]
                /\ args' = [args EXCEPT ![p] =
                      [p_transfer_request_id |-> id,
                       p_sender_account_id |-> q.sender,
                       p_receiver_account_id |-> q.receiver,
                       p_amount |-> q.amount]]
                /\ request' = [request EXCEPT ![p] = [op |-> "initiate", id |-> id]]
           ELSE /\ pc' = [pc EXCEPT ![p] = "idle"]
                /\ request' = [request EXCEPT ![p] = NoRequest]
                /\ UNCHANGED args
    /\ UNCHANGED <<challenges, now>>
    /\ UnchangedPosting

\* A posting call made again for a transfer row, stale or replayed, with the
\* row's accounts and amount.
ReplayedCall(p) ==
    /\ pc[p] = "idle"
    /\ \E t \in DOMAIN transfers :
          CallWith(p, t, transfers[t].sender_account_id,
                   transfers[t].receiver_account_id, transfers[t].amount)
    /\ UNCHANGED <<result, opening, orch>>

\* The orchestrator's call of execute_low_risk_transfer for a transfer row,
\* with the row's accounts and amount.
PostTransfer(p) ==
    /\ pc[p] = "call"
    /\ CallWith(p, args[p].p_transfer_request_id, args[p].p_sender_account_id,
                args[p].p_receiver_account_id, args[p].p_amount)
    /\ UNCHANGED <<result, opening, orch>>

\* ------------------------------------------------------ MFA challenge manager
\* The transfer_mfa_challenges row CreateChallenge stores: the hash of a fresh
\* code, a zeroed attempt counter and the expiry.
NewChallenge(code) ==
    [code_hash |-> CodeHash(code), attempts |-> 0,
     max_attempts |-> DefaultMaxAttempts, status |-> "PENDING",
     expires_at |-> now + ChallengeTtl]

\* transfer_request_id is UNIQUE: a transfer has one challenge row, and the
\* row stored for a transfer that has one takes its place.
StoreChallenge(rows, t, row) ==
    [x \in DOMAIN rows \cup {t} |-> IF x = t THEN row ELSE rows[x]]

\* CreateChallenge(transferRequestId), also the client's "Resend OTP": it
\* fails unless the transfer is MFA_REQUIRED (and its sender's account active).
CreateChallenge ==
    /\ \E t \in TransferIdInputs, code \in FreshCodes :
          IF t \notin DOMAIN transfers THEN UNCHANGED challenges      \* NotFound
          ELSE IF ~is_active[transfers[t].sender_account_id]
          THEN UNCHANGED challenges                                  \* AccountBlocked
          ELSE IF transfers[t].status # "MFA_REQUIRED"
          THEN UNCHANGED challenges                                  \* InvalidState
          ELSE challenges' = StoreChallenge(challenges, t, NewChallenge(code))
    /\ UNCHANGED <<transfers, pc, args, is_active, now, request>>
    /\ UnchangedPosting

\* Faulty variant of Expired: the expiry is not looked at.
NeverExpired(c, time) == FALSE

\* Section 4.5: a challenge is expired when now > expires_at.
Expired(c, time) == time > c.expires_at

\* Faulty variant of AfterWrongCode: LOCKED only past the ceiling.
AfterWrongCodeLateLock(c) ==
    [c EXCEPT !.attempts = c.attempts + 1,
              !.status = IF c.attempts + 1 > c.max_attempts THEN "LOCKED"
                         ELSE c.status]

\* The challenge after a wrong code: one more attempt, LOCKED at the ceiling.
AfterWrongCode(c) ==
    [c EXCEPT !.attempts = c.attempts + 1,
              !.status = IF c.attempts + 1 >= c.max_attempts THEN "LOCKED"
                         ELSE c.status]

\* VerifyChallenge(transferRequestId, submittedCode) up to the challenge's
\* transition. Only a PENDING challenge changes: VERIFIED, EXPIRED and LOCKED
\* are terminal.
VerifyChallenge(p) ==
    /\ pc[p] = "idle"
    /\ \E t \in TransferIdInputs, code \in Codes :
          LET c == challenges[t]
              fail(row) ==
                  /\ challenges' = [challenges EXCEPT ![t] = row]
                  /\ UNCHANGED <<pc, request>>
          IN  IF t \notin DOMAIN challenges
              THEN UNCHANGED <<challenges, pc, request>>             \* NotFound
              ELSE IF ~is_active[transfers[t].sender_account_id]
              THEN UNCHANGED <<challenges, pc, request>>             \* AccountBlocked
              ELSE IF transfers[t].status # "MFA_REQUIRED"
              THEN UNCHANGED <<challenges, pc, request>>             \* InvalidState
              ELSE IF c.status # "PENDING"
              THEN UNCHANGED <<challenges, pc, request>>   \* Locked, Expired, InvalidState
              ELSE IF Expired(c, now)
              THEN fail([c EXCEPT !.status = "EXPIRED"])             \* Expired
              ELSE IF CodeHash(code) # c.code_hash
              THEN fail(AfterWrongCode(c))                           \* InvalidCode
              ELSE /\ challenges' = [challenges EXCEPT ![t] = [c EXCEPT !.status = "VERIFIED"]]
                   /\ request' = [request EXCEPT ![p] = [op |-> "verify", id |-> t]]
                   /\ pc' = [pc EXCEPT ![p] = "set_pending"]
    /\ UNCHANGED <<transfers, args, is_active, now>>
    /\ UnchangedPosting

\* VerifyChallenge after the challenge became VERIFIED: the transfer is set to
\* COMPLETED_PENDING_POSTING (the UPDATE waits for the row's lock), and the
\* Ledger Poster is invoked next. The transfer's status was read when the
\* request was validated; section 5 asks for no lock on the transfer row
\* between that read and this transition.
SetPending(p) ==
    LET t == request[p].id
        row == transfers[t]
    IN  /\ pc[p] = "set_pending"
        /\ lockXfer[t] = 0
        /\ transfers' = ApplyStatus(transfers, t, "COMPLETED_PENDING_POSTING")
        /\ pc' = [pc EXCEPT ![p] = "call"]
        /\ args' = [args EXCEPT ![p] =
              [p_transfer_request_id |-> t,
               p_sender_account_id |-> row.sender_account_id,
               p_receiver_account_id |-> row.receiver_account_id,
               p_amount |-> row.amount]]
        /\ UNCHANGED <<is_active, challenges, now, request>>
        /\ UnchangedPosting

\* The server clock advances.
Tick ==
    /\ now < MaxNow
    /\ now' = now + 1
    /\ UNCHANGED <<transfers, pc, args, is_active, challenges, request>>
    /\ UnchangedPosting

\* ------------------------------------------------------------------ the bank
\* Accounts with an opening balance and no transfer yet.
InitBank ==
    /\ balance = [a \in Accounts |-> MaxBalance * Cent]
    /\ transfers = <<>>
    /\ ledger = <<>>
    /\ lockAcct = [a \in Accounts |-> 0]
    /\ lockXfer = [t \in TransferIds |-> 0]
    /\ pc = [p \in Procs |-> "idle"]
    /\ args = [p \in Procs |-> NoArgs]
    /\ locals = [p \in Procs |-> NoLocals]
    /\ tx = [p \in Procs |-> NoWrites]
    /\ err = [p \in Procs |-> ""]
    /\ result = [p \in Procs |-> NoResult]
    /\ opening = balance
    /\ is_active = [a \in Accounts |-> TRUE]
    /\ challenges = <<>>
    /\ now = 0
    /\ request = [p \in Procs |-> NoRequest]
    /\ seed_runs = 0
    /\ app = AppMounted
    /\ dash = DashboardMounted
    /\ InitPages

NextBank ==
    \/ CreateChallenge
    \/ \E p \in Procs :
          \/ InitiateTransfer(p)
          \/ Dispatch(p)
          \/ VerifyChallenge(p)
          \/ SetPending(p)
          \/ PostTransfer(p)
          \/ ReplayedCall(p)
          \/ SelectSender(p)
          \/ SelectReceiver(p)
          \/ UpdateSender(p)
          \/ UpdateReceiver(p)
          \/ InsertDebit(p)
          \/ InsertCredit(p)
          \/ Complete(p)
          \/ Handler(p)
          \/ DeadlockDetected(p)

SpecBank == InitBank /\ [][NextBank]_vars

\* ------------------------------------------------- deferred transfers and time
\* The transfers are MEDIUM-risk transfers as Dispatch leaves them, each
\* MFA_REQUIRED and without a challenge yet, requested with one key after the
\* other; the clock runs.
DeferredRows ==
    {TransferRow(s, r, amt, key, "MEDIUM") :
        s \in Accounts, r \in Accounts, amt \in TransferAmounts \ {0}, key \in Keys}

InitMfa ==
    /\ balance = [a \in Accounts |-> MaxBalance * Cent]
    /\ transfers \in [TransferIds -> DeferredRows]
    /\ \A t \in TransferIds :
          /\ transfers[t].sender_account_id # transfers[t].receiver_account_id
          /\ transfers[t].request_id = ((t - 1) % NumKeys) + 1
          /\ TransfersWithKey(transfers[t].sender_account_id,
                              transfers[t].request_id) = {t}
    /\ ledger = <<>>
    /\ lockAcct = [a \in Accounts |-> 0]
    /\ lockXfer = [t \in TransferIds |-> 0]
    /\ pc = [p \in Procs |-> "idle"]
    /\ args = [p \in Procs |-> NoArgs]
    /\ locals = [p \in Procs |-> NoLocals]
    /\ tx = [p \in Procs |-> NoWrites]
    /\ err = [p \in Procs |-> ""]
    /\ result = [p \in Procs |-> NoResult]
    /\ opening = balance
    /\ is_active = [a \in Accounts |-> TRUE]
    /\ challenges = <<>>
    /\ now = 0
    /\ request = [p \in Procs |-> NoRequest]
    /\ seed_runs = 0
    /\ app = AppMounted
    /\ dash = DashboardMounted
    /\ InitPages

NextMfa ==
    \/ CreateChallenge
    \/ Tick
    \/ \E p \in Procs :
          \/ VerifyChallenge(p)
          \/ SetPending(p)
          \/ PostTransfer(p)
          \/ SelectSender(p)
          \/ SelectReceiver(p)
          \/ UpdateSender(p)
          \/ UpdateReceiver(p)
          \/ InsertDebit(p)
          \/ InsertCredit(p)
          \/ Complete(p)
          \/ Handler(p)
          \/ DeadlockDetected(p)

SpecMfa == InitMfa /\ [][NextMfa]_vars

\* ================================================= claims on the orchestrator
\* Positions of a call of the procedure that is past the checks of its row.
Posting ==
    {"select_sender", "select_receiver", "update_sender", "update_receiver",
     "insert_debit", "insert_credit", "set_completed"}

\* C12: every transfer that is COMPLETED or has a ledger entry, and every
\* transfer a call of the procedure is posting, has the risk_level LOW or MEDIUM
\* and the action APPROVE or TRIGGER_MFA recorded on its row; no transfer with
\* the risk_level HIGH or with none is posted.
C12_PostedHasVerdict ==
    \A t \in DOMAIN transfers :
        (\/ transfers[t].status = "COMPLETED"
         \/ EntriesOf(ledger, t) # {}
         \/ \E p \in Procs : pc[p] \in Posting /\ args[p].p_transfer_request_id = t)
        => /\ transfers[t].risk_level \in {"LOW", "MEDIUM"}
           /\ transfers[t].action \in {"APPROVE", "TRIGGER_MFA"}

\* C12 witness: a MEDIUM transfer was posted after its challenge, and a posting
\* call for a HIGH transfer was refused.
C12_Witness ==
    \E t, u \in DOMAIN transfers, p \in Procs :
        /\ transfers[t].status = "COMPLETED"
        /\ transfers[t].risk_level = "MEDIUM"
        /\ EntriesOf(ledger, t) # {}
        /\ transfers[u].risk_level = "HIGH"
        /\ pc[p] = "handler"
        /\ err[p] = "not_postable"
        /\ args[p].p_transfer_request_id = u

\* C13: at most one transfer row exists per sender and idempotency key: a
\* second InitiateTransfer of a sender with a key creates no second row (it is
\* answered with the first call's transfer, unscored and unposted).
C13_OneRowPerKey ==
    \A s \in Accounts, key \in Keys : Cardinality(TransfersWithKey(s, key)) <= 1

\* The step in which session p creates its transfer row.
Dispatches(p) == pc[p] = "scored" /\ pc'[p] # "scored"

\* What the creation of a transfer row by session p does.
C14_Dispatched(p) ==
    LET id == Len(transfers')
        row == transfers'[id]
        s == row.sender_account_id
        resp == TransferResponse(id, row)
        others == \A a \in Accounts \ {s} : is_active'[a] = is_active[a]
    IN  /\ Len(transfers') = Len(transfers) + 1
        /\ balance' = balance
        /\ ledger' = ledger
        /\ others
        /\ row.risk_level = "LOW" =>
              /\ row.action = "APPROVE"
              /\ row.status = "COMPLETED_PENDING_POSTING"
              /\ pc'[p] = "call"
              /\ args'[p].p_transfer_request_id = id
              /\ ~resp.mfa_required /\ ~resp.force_logout
              /\ is_active'[s] = is_active[s]
        /\ row.risk_level = "MEDIUM" =>
              /\ row.action = "TRIGGER_MFA"
              /\ row.status = "MFA_REQUIRED"
              /\ pc'[p] = "idle"
              /\ resp.mfa_required /\ ~resp.force_logout
              /\ is_active'[s] = is_active[s]
        /\ row.risk_level = "HIGH" =>
              /\ row.action = "BLOCK"
              /\ row.status = "REJECTED_HIGH_RISK"
              /\ pc'[p] = "idle"
              /\ resp.force_logout /\ ~resp.mfa_required
              /\ ~is_active'[s]

C15_FailClosed ==
    [][/\ \A p \in Procs :
            (Dispatches(p) /\ transfers'[Len(transfers')].risk_level \notin RiskLevels) =>
                /\ transfers'[Len(transfers')].status = "FAILED"
                /\ transfers'[Len(transfers')].action \notin {"APPROVE", "TRIGGER_MFA", "BLOCK"}
                /\ pc'[p] = "idle"
                /\ balance' = balance /\ ledger' = ledger /\ is_active' = is_active
       /\ \A t \in DOMAIN transfers :
            transfers[t].risk_level \notin RiskLevels =>
                /\ transfers'[t] = transfers[t]
                /\ transfers[t].status = "FAILED"
                /\ EntriesOf(ledger', t) = {}
                /\ \A p \in Procs :
                      pc'[p] \in Posting => args'[p].p_transfer_request_id # t
      ]_vars

\* C15 witness: a transfer is FAILED and unscored after a failed classifier
\* call, and a posting call for it was refused.
C15_Witness ==
    \E t \in DOMAIN transfers, p \in Procs :
        /\ transfers[t].risk_level = "NULL"
        /\ transfers[t].status = "FAILED"
        /\ pc[p] = "handler"
        /\ err[p] = "not_postable"
        /\ args[p].p_transfer_request_id = t
        /\ balance = opening

\* C16: while a transfer is MFA_REQUIRED it has no ledger entry and no call of
\* the procedure gets past its checks for it (so no balance changes for it);
\* it leaves MFA_REQUIRED only for COMPLETED_PENDING_POSTING, in a step of a
\* VerifyChallenge request that an earlier step took to the point by making the
\* transfer's PENDING challenge VERIFIED, and that calls the procedure only in
\* a later step.
C16_PostedAfterVerified ==
    [][/\ \A t \in DOMAIN transfers' :
            transfers'[t].status = "MFA_REQUIRED" =>
                /\ EntriesOf(ledger', t) = {}
                /\ \A p \in Procs :
                      pc'[p] \in Posting => args'[p].p_transfer_request_id # t
       /\ \A p \in Procs :
            (pc[p] # "set_pending" /\ pc'[p] = "set_pending") =>
                LET t == request'[p].id
                IN  /\ challenges[t].status = "PENDING"
                    /\ challenges'[t].status = "VERIFIED"
                    /\ transfers' = transfers
                    /\ balance' = balance /\ ledger' = ledger
       /\ \A t \in DOMAIN transfers :
            (transfers[t].status = "MFA_REQUIRED" /\ transfers'[t] # transfers[t]) =>
                /\ transfers'[t].status = "COMPLETED_PENDING_POSTING"
                /\ \E p \in Procs :
                      /\ pc[p] = "set_pending" /\ request[p].id = t
                      /\ pc'[p] = "call" /\ args'[p].p_transfer_request_id = t
                /\ balance' = balance /\ ledger' = ledger
      ]_vars

\* C16 witness: a MEDIUM transfer was posted after its challenge was verified,
\* and a posting call for another transfer that is still MFA_REQUIRED was
\* refused.
C16_Witness ==
    \E t, u \in DOMAIN transfers, p \in Procs :
        /\ transfers[t].risk_level = "MEDIUM"
        /\ transfers[t].status = "COMPLETED"
        /\ challenges[t].status = "VERIFIED"
        /\ EntriesOf(ledger, t) # {}
        /\ transfers[u].status = "MFA_REQUIRED"
        /\ pc[p] = "handler"
        /\ err[p] = "not_postable"
        /\ args[p].p_transfer_request_id = u

\* The challenge row c was replaced by a new challenge in this step.
Recreated(c, d) ==
    d.status = "PENDING" /\ d.attempts = 0 /\ d.expires_at = now + ChallengeTtl

\* C17: attempts is at most max_attempts, and a challenge is LOCKED exactly
\* when attempts = max_attempts (3); a step that changes attempts of a
\* challenge adds one to it, on a PENDING challenge, and makes it LOCKED exactly
\* when the new count is max_attempts; no step makes a LOCKED challenge
\* VERIFIED, and no VerifyChallenge request goes on to posting for a transfer
\* whose challenge is LOCKED.
C17_LockAtCeiling ==
    [][\A t \in DOMAIN challenges :
          LET c == challenges[t]
              d == challenges'[t]
          IN  /\ c.attempts <= c.max_attempts
              /\ (c.status = "LOCKED") <=> (c.attempts = c.max_attempts)
              /\ (d.attempts # c.attempts /\ ~Recreated(c, d)) =>
                    /\ c.status = "PENDING"
                    /\ d.attempts = c.attempts + 1
                    /\ d.status = IF d.attempts = d.max_attempts THEN "LOCKED"
                                  ELSE "PENDING"
                    /\ UNCHANGED <<transfers, balance, ledger, pc>>
              /\ c.status = "LOCKED" =>
                    /\ d.status # "VERIFIED"
                    /\ \A p \in Procs :
                          (pc[p] = "idle" /\ pc'[p] = "set_pending")
                              => request'[p].id # t
      ]_vars

\* C17 witness: a challenge is LOCKED after three wrong codes, and its transfer
\* is still MFA_REQUIRED.
C17_Witness ==
    \E t \in DOMAIN challenges :
        /\ challenges[t].status = "LOCKED"
        /\ challenges[t].attempts = 3
        /\ challenges[t].max_attempts = 3
        /\ transfers[t].status = "MFA_REQUIRED"
        /\ EntriesOf(ledger, t) = {}

C19_TerminalChallengeAbsorbing ==
    [][\A t \in DOMAIN challenges :
          challenges[t].status \in {"LOCKED", "EXPIRED"} =>
              /\ challenges'[t] = challenges[t]
              /\ transfers'[t].status = transfers[t].status
      ]_vars

\* C20: no posting commits a debit of a sender account that is inactive: every
\* step that commits a call of execute_low_risk_transfer (and so debits the
\* call's sender account) is taken while that account is active.
C20_NoDebitOfInactive ==
    [][\A p \in Procs :
          Commits(p) => is_active[args[p].p_sender_account_id]
      ]_vars

\* C21: when a call commits, the value it returns carries the new balances of
\* both accounts: its sender_balance_after and receiver_balance_after equal the
\* balances stored for the call's sender and receiver accounts by the commit.
C21_ReturnsStoredBalances ==
    [][\A p \in Procs :
          Commits(p) =>
              /\ result'[p].returned
              /\ result'[p].sender_balance_after =
                     balance'[args[p].p_sender_account_id]
              /\ result'[p].receiver_balance_after =
                     balance'[args[p].p_receiver_account_id]
      ]_vars

\* ================================================= banking_demo_seed.sql
MaxSeedRuns == 2     \* runs of seed_demo_banking_data_for_user

\* An amount of whole currency units, in model units.
Dollars(n) == n * 100 * Cent

\* The account rows of the seeded user and of the three receivers the function
\* creates (alice, bob, charlie), and the account of another customer.
v_sender_account_id == 1
v_receiver_1_account_id == 2
v_receiver_2_account_id == 3
v_receiver_3_account_id == 4
OtherAccountId == 5

SeedAccounts ==
    {v_sender_account_id, v_receiver_1_account_id, v_receiver_2_account_id,
     v_receiver_3_account_id}

\* Lines 54-64.
v_sender_start_balance == Dollars(25000)
v_receiver_1_start_balance == Dollars(42000)
v_receiver_2_start_balance == Dollars(18000)
v_receiver_3_start_balance == Dollars(36500)
v_t1_amount == Dollars(1200)
v_t2_amount == Dollars(750)
v_t3_amount == Dollars(3150)
v_t4_amount == Dollars(500)
v_t5_amount == Dollars(9800)
v_t6_amount == Dollars(15000)

\* Lines 66-71: the ids of the seeded transfers are computed from the user's
\* id, the same at every run.
v_t1_id == 1
v_t2_id == 2
v_t3_id == 3
v_t4_id == 4
v_t5_id == 5
v_t6_id == 6
SeededIds == {v_t1_id, v_t2_id, v_t3_id, v_t4_id, v_t5_id, v_t6_id}

\* A transfer of the user that the seeding did not create.
OwnTransferId == 7

\* request_id values: <<prefix, rest>>. Line 36: the prefix of the seeded rows.
v_seed_prefix == "seed-demo"

\* Faulty variant of SeedRequestId: the LIKE matches no row.
SeedRequestIdNoMatch(rid) == FALSE

\* Lines 224-232: request_id LIKE v_seed_prefix || ':%'.
SeedRequestId(rid) == rid[1] = v_seed_prefix

StartBalance ==
    (v_sender_account_id :> v_sender_start_balance)
    @@ (v_receiver_1_account_id :> v_receiver_1_start_balance)
    @@ (v_receiver_2_account_id :> v_receiver_2_start_balance)
    @@ (v_receiver_3_account_id :> v_receiver_3_start_balance)

\* Lines 75-222: the INSERTs of the account rows, which leave an existing row's
\* balance alone (ON CONFLICT ... DO UPDATE sets the other columns).
WithSeedAccounts(bal) ==
    [a \in DOMAIN bal \cup SeedAccounts |->
        IF a \in DOMAIN bal THEN bal[a] ELSE StartBalance[a]]

\* Lines 235-238: the UPDATEs that reset the four balances.
SeedStartWrites ==
    <<[account |-> v_sender_account_id, balance |-> v_sender_start_balance],
      [account |-> v_receiver_1_account_id, balance |-> v_receiver_1_start_balance],
      [account |-> v_receiver_2_account_id, balance |-> v_receiver_2_start_balance],
      [account |-> v_receiver_3_account_id, balance |-> v_receiver_3_start_balance]>>

\* Faulty variant of SeedFinalWrites: the sender's history is left out of its
\* balance.
SeedFinalWritesUnposted ==
    <<[account |-> v_sender_account_id, balance |-> v_sender_start_balance],
      [account |-> v_receiver_1_account_id, balance |-> Dollars(42450)],
      [account |-> v_receiver_2_account_id, balance |-> Dollars(21150)],
      [account |-> v_receiver_3_account_id, balance |-> Dollars(36000)]>>

\* Lines 481-484: the UPDATEs that store the balances after the seeded history.
SeedFinalWrites ==
    <<[account |-> v_sender_account_id, balance |-> Dollars(21900)],
      [account |-> v_receiver_1_account_id, balance |-> Dollars(42450)],
      [account |-> v_receiver_2_account_id, balance |-> Dollars(21150)],
      [account |-> v_receiver_3_account_id, balance |-> Dollars(36000)]>>

SeedTransfer(s, r, amt, verdict, status, n) ==
    [status |-> status, sender_account_id |-> s, receiver_account_id |-> r,
     amount |-> amt, risk_level |-> verdict, action |-> ActionOf(verdict),
     request_id |-> <<v_seed_prefix, n>>]

\* Lines 240-386: the six transfer rows.
SeedTransfers ==
    (v_t1_id :> SeedTransfer(v_sender_account_id, v_receiver_1_account_id,
                             v_t1_amount, "LOW", "COMPLETED", "t1"))
    @@ (v_t2_id :> SeedTransfer(v_receiver_1_account_id, v_sender_account_id,
                                v_t2_amount, "LOW", "COMPLETED", "t2"))
    @@ (v_t3_id :> SeedTransfer(v_sender_account_id, v_receiver_2_account_id,
                                v_t3_amount, "LOW", "COMPLETED", "t3"))
    @@ (v_t4_id :> SeedTransfer(v_receiver_3_account_id, v_sender_account_id,
                                v_t4_amount, "LOW", "COMPLETED", "t4"))
    @@ (v_t5_id :> SeedTransfer(v_sender_account_id, v_receiver_3_account_id,
                                v_t5_amount, "MEDIUM", "MFA_REQUIRED", "t5"))
    @@ (v_t6_id :> SeedTransfer(v_sender_account_id, v_receiver_2_account_id,
                                v_t6_amount, "HIGH", "REJECTED_HIGH_RISK", "t6"))

\* A seeded ledger row: created_at is v_now less some hours.
SeedEntry(account, id, type, amount, before, after, v_now, hours) ==
    LedgerEntry(account, id, type, amount, before, after)
    @@ [created_at |-> v_now - hours]

\* Lines 388-479: the eight ledger rows, in the order of the INSERT.
SeedEntries(v_now) ==
    <<SeedEntry(v_sender_account_id, v_t1_id, "DEBIT", v_t1_amount,
                Dollars(25000), Dollars(23800), v_now, 144),
      SeedEntry(v_receiver_1_account_id, v_t1_id, "CREDIT", v_t1_amount,
                Dollars(42000), Dollars(43200), v_now, 144),
      SeedEntry(v_receiver_1_account_id, v_t2_id, "DEBIT", v_t2_amount,
                Dollars(43200), Dollars(42450), v_now, 120),
      SeedEntry(v_sender_account_id, v_t2_id, "CREDIT", v_t2_amount,
                Dollars(23800), Dollars(24550), v_now, 120),
      SeedEntry(v_sender_account_id, v_t3_id, "DEBIT", v_t3_amount,
                Dollars(24550), Dollars(21400), v_now, 72),
      SeedEntry(v_receiver_2_account_id, v_t3_id, "CREDIT", v_t3_amount,
                Dollars(18000), Dollars(21150), v_now, 72),
      SeedEntry(v_receiver_3_account_id, v_t4_id, "DEBIT", v_t4_amount,
                Dollars(36500), Dollars(36000), v_now, 24),
      SeedEntry(v_sender_account_id, v_t4_id, "CREDIT", v_t4_amount,
                Dollars(21400), Dollars(21900), v_now, 24)>>

\* The transfer rows the DELETE of lines 231-232 removes.
SeedDeleted(rows) == {t \in DOMAIN rows : SeedRequestId(rows[t].request_id)}

Restrict(f, S) == [x \in S |-> f[x]]

\* seed_demo_banking_data_for_user(p_user_id), lines 74-497, one transaction:
\* the account rows are created if missing and activated, the ledger rows of
\* the seeded transfers and then the seeded transfers are deleted (the
\* challenges of a deleted transfer go with it, ON DELETE CASCADE), the four
\* balances are reset, the six transfers and the eight ledger rows are
\* inserted, and the four balances are set. Its UPDATEs and DELETEs wait for
\* the row locks that a posting holds.
seed_demo_banking_data_for_user ==
    LET deleted == SeedDeleted(transfers)
        kept == Restrict(transfers, DOMAIN transfers \ deleted)
        keptEntry(entry) == entry.transfer_request_id \notin deleted
    IN  /\ seed_runs < MaxSeedRuns
        /\ \A a \in SeedAccounts \cap DOMAIN balance : lockAcct[a] = 0
        /\ \A t \in deleted : lockXfer[t] = 0
        /\ balance' = ApplyBalances(
                          ApplyBalances(WithSeedAccounts(balance), SeedStartWrites),
                          SeedFinalWrites)
        /\ is_active' = [a \in DOMAIN is_active \cup SeedAccounts |->
                            IF a \in SeedAccounts THEN TRUE ELSE is_active[a]]
        /\ transfers' = kept @@ SeedTransfers
        /\ ledger' = SelectSeq(ledger, keptEntry) \o SeedEntries(now)
        /\ challenges' = Restrict(challenges, DOMAIN challenges \ deleted)
        /\ seed_runs' = seed_runs + 1
        /\ UNCHANGED <<lockAcct, lockXfer, pc, args, locals, tx, err, result,
                       opening, now, request, app, dash, probe, appState,
                       adminRow, toasts>>

\* The user's own transfer, created LOW and about to be posted.
OwnTransfer ==
    [status |-> "COMPLETED_PENDING_POSTING",
     sender_account_id |-> v_sender_account_id,
     receiver_account_id |-> OtherAccountId,
     amount |-> Cent, risk_level |-> "LOW", action |-> "APPROVE",
     request_id |-> <<"req", 1>>]

\* The database before the first seeding: another customer's account, and
\* either no account of the user yet, or the user's account (active or
\* blocked) with a transfer of their own.
InitSeed ==
    /\ \E hasAccount \in BOOLEAN, bal \in {0, Cent}, active \in BOOLEAN :
          IF hasAccount
          THEN /\ balance = (v_sender_account_id :> bal) @@ (OtherAccountId :> 0)
               /\ is_active = (v_sender_account_id :> active) @@ (OtherAccountId :> TRUE)
               /\ transfers = (OwnTransferId :> OwnTransfer)
          ELSE /\ bal = 0 /\ active
               /\ balance = (OtherAccountId :> 0)
               /\ is_active = (OtherAccountId :> TRUE)
               /\ transfers = <<>>
    /\ ledger = <<>>
    /\ lockAcct = [a \in SeedAccounts \cup {OtherAccountId} |-> 0]
    /\ lockXfer = [t \in SeededIds \cup {OwnTransferId} |-> 0]
    /\ pc = [p \in Procs |-> "idle"]
    /\ args = [p \in Procs |-> NoArgs]
    /\ locals = [p \in Procs |-> NoLocals]
    /\ tx = [p \in Procs |-> NoWrites]
    /\ err = [p \in Procs |-> ""]
    /\ result = [p \in Procs |-> NoResult]
    /\ opening = balance
    /\ challenges = <<>>
    /\ now = 0
    /\ request = [p \in Procs |-> NoRequest]
    /\ seed_runs = 0
    /\ app = AppMounted
    /\ dash = DashboardMounted
    /\ InitPages

NextSeed ==
    \/ seed_demo_banking_data_for_user
    \/ \E p \in Procs :
          \/ ReplayedCall(p)
          \/ SelectSender(p)
          \/ SelectReceiver(p)
          \/ UpdateSender(p)
          \/ UpdateReceiver(p)
          \/ InsertDebit(p)
          \/ InsertCredit(p)
          \/ Complete(p)
          \/ Handler(p)

SpecSeed == InitSeed /\ [][NextSeed]_vars

\* The step in which a run of seed_demo_banking_data_for_user commits.
Seeds == seed_runs' # seed_runs

\* C22: no step deletes a transfer row or changes anything of it but its
\* status, no step deletes or rewrites a ledger row (the ledger only grows at
\* its end), and the balance of an account changes only in a step that commits
\* a call of execute_low_risk_transfer.
C22_OnlyPostingWrites ==
    [][/\ \A t \in DOMAIN transfers :
             /\ t \in DOMAIN transfers'
             /\ [transfers'[t] EXCEPT !.status = transfers[t].status] = transfers[t]
       /\ Len(ledger') >= Len(ledger)
       /\ SubSeq(ledger', 1, Len(ledger)) = ledger
       /\ \A a \in DOMAIN balance :
             (a \notin DOMAIN balance' \/ balance'[a] # balance[a])
                 => \E p \in Procs : Commits(p)
      ]_vars

\* The rows a run of the seeding is answerable for: the transfers with the
\* seeded ids, their ledger rows, and the balances of the four accounts.
SeededTransfers(rows) == {t \in DOMAIN rows : t \in SeededIds}

SeededEntries(rows) ==
    {i \in DOMAIN rows : rows[i].transfer_request_id \in SeededIds}

WithStatus(rows, status) ==
    {t \in SeededTransfers(rows) : rows[t].status = status}

\* C24: every committed run of seed_demo_banking_data_for_user, the first and
\* any later one, whatever happened before it, leaves the same seeded state:
\* exactly six seeded transfers (four COMPLETED, one MFA_REQUIRED, one
\* REJECTED_HIGH_RISK) with the same content, exactly eight seeded ledger rows
\* with the same content, and the balances 21900.00, 42450.00, 21150.00 and
\* 36000.00 on the sender and the three receiver accounts.
C24_SeedIdempotent ==
    [][Seeds =>
          /\ Cardinality(SeededTransfers(transfers')) = 6
          /\ Cardinality(WithStatus(transfers', "COMPLETED")) = 4
          /\ Cardinality(WithStatus(transfers', "MFA_REQUIRED")) = 1
          /\ Cardinality(WithStatus(transfers', "REJECTED_HIGH_RISK")) = 1
          /\ Cardinality(SeededEntries(ledger')) = 8
          /\ balance'[v_sender_account_id] = Dollars(21900)
          /\ balance'[v_receiver_1_account_id] = Dollars(42450)
          /\ balance'[v_receiver_2_account_id] = Dollars(21150)
          /\ balance'[v_receiver_3_account_id] = Dollars(36000)
          /\ seed_runs >= 1 =>
                /\ \A x \in SeededIds : transfers'[x] = transfers[x]
                /\ {ledger'[i] : i \in SeededEntries(ledger')} =
                       {ledger[i] : i \in SeededEntries(ledger)}
      ]_vars

\* C24 witness: the seeding has run twice, with a posting of the user's own
\* transfer committed as well, and the seeded state is in place.
C24_Witness ==
    /\ seed_runs = 2
    /\ OwnTransferId \in DOMAIN transfers
    /\ transfers[OwnTransferId].status = "COMPLETED"
    /\ Cardinality(SeededTransfers(transfers)) = 6
    /\ Cardinality(SeededEntries(ledger)) = 8
    /\ balance[v_sender_account_id] = Dollars(21900)

\* The seeded ledger rows of an account, as positions in the ledger.
SeededEntriesOf(rows, a) == {i \in SeededEntries(rows) : rows[i].account_id = a}

\* The ledger row of an account that comes just before row i in time.
SeedPrevious(rows, a, i) ==
    {j \in SeededEntriesOf(rows, a) :
        /\ rows[j].created_at < rows[i].created_at
        /\ \A k \in SeededEntriesOf(rows, a) :
              rows[k].created_at < rows[i].created_at
                  => rows[k].created_at <= rows[j].created_at}

\* The last seeded ledger row of an account in time.
SeedLast(rows, a) ==
    {i \in SeededEntriesOf(rows, a) :
        \A k \in SeededEntriesOf(rows, a) : rows[k].created_at <= rows[i].created_at}

LedgerConsistent(tr, lg, bal) ==
    /\ \A t \in SeededTransfers(tr) :
          LET debits == EntriesOfType(lg, t, "DEBIT")
              credits == EntriesOfType(lg, t, "CREDIT")
          IN  IF tr[t].status = "COMPLETED"
              THEN /\ Cardinality(debits) = 1
                   /\ Cardinality(credits) = 1
                   /\ \A d \in debits, c \in credits :
                         /\ lg[d].account_id = tr[t].sender_account_id
                         /\ lg[c].account_id = tr[t].receiver_account_id
                         /\ lg[d].amount = tr[t].amount
                         /\ lg[c].amount = tr[t].amount
                         /\ lg[d].balance_before - lg[d].balance_after = tr[t].amount
                         /\ lg[c].balance_after - lg[c].balance_before = tr[t].amount
              ELSE EntriesOf(lg, t) = {}
    /\ \A a \in SeedAccounts :
          /\ \A i \in SeededEntriesOf(lg, a) :
                IF SeedPrevious(lg, a, i) = {}
                THEN lg[i].balance_before = StartBalance[a]
                ELSE /\ Cardinality(SeedPrevious(lg, a, i)) = 1
                     /\ \A j \in SeedPrevious(lg, a, i) :
                           lg[i].balance_before = lg[j].balance_after
          /\ Cardinality(SeedLast(lg, a)) = 1
          /\ \A i \in SeedLast(lg, a) : bal[a] = lg[i].balance_after
    /\ bal[v_sender_account_id] = Dollars(21900)
    /\ bal[v_receiver_1_account_id] = Dollars(42450)
    /\ bal[v_receiver_2_account_id] = Dollars(21150)
    /\ bal[v_receiver_3_account_id] = Dollars(36000)

\* C28: the state a run of the seeding commits is ledger-consistent: every
\* seeded COMPLETED transfer has one DEBIT on its sender and one CREDIT on its
\* receiver, both of the transfer's amount, whose balances before and after
\* differ by the amount; the seeded rows of each account chain in time order
\* from the account's start balance; the stored balances (21900.00, 42450.00,
\* 21150.00, 36000.00) are the balance_after of each account's last row; and
\* the seeded transfers that are not COMPLETED have no ledger row.
C28_SeedLedgerConsistent ==
    [][Seeds => LedgerConsistent(transfers', ledger', balance')]_vars

\* C28 witness: a run of the seeding has committed on a database in which the
\* user had an account, and its state stands.
C28_Witness ==
    /\ seed_runs = 1
    /\ OwnTransferId \in DOMAIN transfers
    /\ LedgerConsistent(transfers, ledger, balance)

\* C25: when a call commits, the amount written in both of its ledger entries,
\* the amount taken from the sender's balance and the amount added to the
\* receiver's balance are the amount recorded on the transfer row, whatever
\* p_amount the caller passed.
C25_PostsRecordedAmount ==
    [][\A p \in Procs :
          Commits(p) =>
              LET id == args[p].p_transfer_request_id
                  row == transfers[id]
                  s == row.sender_account_id
                  r == row.receiver_account_id
              IN  /\ \A i \in EntriesOf(ledger', id) : ledger'[i].amount = row.amount
                  /\ s # r => /\ balance[s] - balance'[s] = row.amount
                              /\ balance'[r] - balance[r] = row.amount
      ]_vars

\* C26: a transfer deferred behind MFA is posted at most once, however often
\* and however concurrently its challenge is verified: no step changes the
\* status of a COMPLETED or FAILED transfer, and no transfer has more than one
\* DEBIT entry.
C26_PostedAtMostOnce ==
    [][\A t \in DOMAIN transfers :
          /\ transfers[t].status \in {"COMPLETED", "FAILED"} =>
                transfers'[t].status = transfers[t].status
          /\ Cardinality(EntriesOfType(ledger', t, "DEBIT")) <= 1
      ]_vars

\* The ledger rows of an account, as positions in the ledger (insertion order).
AccountEntries(rows, a) == {i \in DOMAIN rows : rows[i].account_id = a}

\* The last position of a non-empty set of positions.
Latest(S) == CHOOSE i \in S : \A j \in S : j <= i

\* C27: in every state reached by calls of the procedure, the ledger entries
\* of each account form a chain (the balance_before of each entry is the
\* balance_after of the account's previous entry) and the account's stored
\* balance is the balance_after of its latest entry.
C27_LedgerChain ==
    \A a \in DOMAIN balance :
        LET E == AccountEntries(ledger, a)
        IN  E # {} =>
              /\ \A i \in E :
                    LET before == {j \in E : j < i}
                    IN  before # {} =>
                          ledger[i].balance_before = ledger[Latest(before)].balance_after
              /\ balance[a] = ledger[Latest(E)].balance_after

\* ================================================= the clients of the API
\* What the user can type in the receiver fields, the amount field and the
\* OTP field.
AccountTexts == {"", "1111 ", "2222"}
BankTexts == {"CAPBANK001", "OTHERBANK"}
AmountTexts == {"", "100", "1e999"}
CodeTexts == {"", "123456"}

\* The user starts a call only while fewer than this many are in flight.
MaxInFlight == 2

\* String.prototype.trim on the texts above.
Trim(text) == IF text = "1111 " THEN "1111" ELSE text

\* Number(text) on the amount texts: the empty string converts to 0 and
\* "1e999" to Infinity.
Number(text) ==
    IF text = "1e999" THEN [finite |-> FALSE, value |-> 0]
    ELSE IF text = "100" THEN [finite |-> TRUE, value |-> 100]
    ELSE [finite |-> TRUE, value |-> 0]

\* !Number.isFinite(parsedAmount) || parsedAmount <= 0
AmountRejected(text) == ~Number(text).finite \/ Number(text).value <= 0

\* validation?.exists
Exists(validation) == validation # null /\ validation.exists

\* What the API can answer a call with: any value of the call's response
\* type, or a rejected fetch.
Answers(api) ==
    {Response(FALSE, FALSE, "", FALSE, FALSE)} \cup
    CASE api = "validate" -> {Response(TRUE, e, "", FALSE, FALSE) : e \in BOOLEAN}
      [] api \in {"initiate", "verify"} ->
            {Response(TRUE, FALSE, status, FALSE, FALSE) :
                status \in {"COMPLETED", "REJECTED_INSUFFICIENT_FUNDS", "FAILED"}}
            \cup {Response(TRUE, FALSE, "MFA_REQUIRED", TRUE, FALSE),
                  Response(TRUE, FALSE, "REJECTED_HIGH_RISK", FALSE, TRUE)}
      [] api \in {"signInWithPassword", "signUp"} ->
            \* resolved with or without { error }
            {Response(TRUE, FALSE, status, FALSE, FALSE) : status \in {"", "error"}}
      [] OTHER -> {Response(TRUE, FALSE, "", FALSE, FALSE)}

\* The ReceiverValidationResponse as the component stores it: the account and
\* bank it reports are those of the request it answers.
Validation(c, r) ==
    [exists |-> r.exists,
     account_number |-> c.receiver_account_number,
     bank_code |-> c.receiver_bank_code]

SuccessPayload == [message |-> "Transaction Successful"]

\* --------------------------------------------------------- UserDashboard
DashboardOnly ==
    UNCHANGED <<balance, transfers, ledger, lockAcct, lockXfer, pc, args,
                locals, tx, err, result, opening, is_active, challenges, now,
                request, seed_runs, app, probe, appState, adminRow, toasts>>

\* A state update of UserDashboard. After the parent has unmounted the
\* component its setters do nothing, while the calls its handlers still make
\* go out.
DashboardSet(next) ==
    /\ dash' = IF dash.accessToken = "" THEN [dash EXCEPT !.net = next.net]
               ELSE next
    /\ DashboardOnly

\* resetTransferForm
resetTransferForm(d) ==
    [d EXCEPT !.receiverBankCode = "CAPBANK001",
              !.receiverAccountNumber = "",
              !.amount = "",
              !.validation = null,
              !.transferLoading = FALSE]

\* The button "Send Money" and the Send Money modal's onClose.
DashboardOpenSend ==
    /\ dash.accessToken # "" /\ ~dash.sendModalOpen
    /\ DashboardSet([dash EXCEPT !.sendModalOpen = TRUE])

DashboardCloseSend ==
    /\ dash.accessToken # "" /\ dash.sendModalOpen
    /\ DashboardSet(resetTransferForm([dash EXCEPT !.sendModalOpen = FALSE]))

\* onChange of the inputs "Account Number", "Bank Code" and "Amount". None
\* of them is ever disabled.
DashboardEditAccount(text) ==
    /\ dash.accessToken # "" /\ dash.sendModalOpen
    /\ text # dash.receiverAccountNumber
    /\ DashboardSet([dash EXCEPT !.receiverAccountNumber = text,
                                 !.validation = null])

DashboardEditBank(text) ==
    /\ dash.accessToken # "" /\ dash.sendModalOpen
    /\ text # dash.receiverBankCode
    /\ DashboardSet([dash EXCEPT !.receiverBankCode = text,
                                 !.validation = null])

DashboardEditAmount(text) ==
    /\ dash.accessToken # "" /\ dash.sendModalOpen
    /\ text # dash.amount
    /\ DashboardSet([dash EXCEPT !.amount = text])

\* handleValidateReceiver up to its await, from the button "Validate
\* Receiver", which is disabled while validationLoading.
DashboardValidateReceiver ==
    /\ dash.accessToken # "" /\ dash.sendModalOpen
    /\ ~dash.validationLoading
    /\ Cardinality(dash.net) < MaxInFlight
    /\ IF Trim(dash.receiverAccountNumber) = ""
       THEN DashboardSet(dash)
       ELSE DashboardSet(
              [dash EXCEPT !.validationLoading = TRUE,
                           !.net = @ \cup {ApiCall("validate", "handleValidateReceiver", "",
                                                Trim(dash.receiverAccountNumber),
                                                Trim(dash.receiverBankCode), 0)}])

\* handleTransferSubmit up to its await, from the button "Validate & Send",
\* which is disabled while transferLoading and unless validation?.exists.
DashboardTransferSubmit ==
    /\ dash.accessToken # "" /\ dash.sendModalOpen
    /\ ~dash.transferLoading /\ Exists(dash.validation)
    /\ Cardinality(dash.net) < MaxInFlight
    /\ IF ~Exists(dash.validation) \/ AmountRejected(dash.amount)
       THEN DashboardSet(dash)
       ELSE DashboardSet(
              [dash EXCEPT !.transferLoading = TRUE,
                           !.net = @ \cup {ApiCall("initiate", "handleTransferSubmit", "",
                                                Trim(dash.receiverAccountNumber),
                                                Trim(dash.receiverBankCode),
                                                Number(dash.amount).value)}])

\* The OTP modal: its onClose, its input, "Resend OTP" (requestMfaChallenge up
\* to its await) and "Verify" (handleVerifyOtp up to its await). Both buttons
\* are disabled while mfaLoading.
DashboardCloseOtp ==
    /\ dash.accessToken # "" /\ dash.otpModalOpen
    /\ DashboardSet([dash EXCEPT !.otpModalOpen = FALSE,
                                 !.pendingTransferId = "",
                                 !.mfaCode = ""])

DashboardEditOtp(text) ==
    /\ dash.accessToken # "" /\ dash.otpModalOpen
    /\ text # dash.mfaCode
    /\ DashboardSet([dash EXCEPT !.mfaCode = text])

DashboardResendOtp ==
    /\ dash.accessToken # "" /\ dash.otpModalOpen
    /\ ~dash.mfaLoading
    /\ Cardinality(dash.net) < MaxInFlight
    /\ DashboardSet([dash EXCEPT !.mfaLoading = TRUE,
                                 !.net = @ \cup {ApiCall("challenge", "requestMfaChallenge",
                                                      dash.pendingTransferId, "", "", 0)}])

DashboardVerifyOtp ==
    /\ dash.accessToken # "" /\ dash.otpModalOpen
    /\ ~dash.mfaLoading
    /\ Cardinality(dash.net) < MaxInFlight
    /\ IF Trim(dash.pendingTransferId) = "" \/ Trim(dash.mfaCode) = ""
       THEN DashboardSet(dash)
       ELSE DashboardSet(
              [dash EXCEPT !.mfaLoading = TRUE,
                           !.net = @ \cup {ApiCall("verify", "handleVerifyOtp",
                                                dash.pendingTransferId, "", "", 0)}])

\* The success modal's onClose and its button "Close".
DashboardCloseSuccess ==
    /\ dash.accessToken # "" /\ dash.successModalPayload # null
    /\ DashboardSet([dash EXCEPT !.successModalPayload = null])

\* The rest of a handler, from the await that the response r to the call c
\* resolves.
DashboardAfter(c, r) ==
    LET d == [dash EXCEPT !.net = @ \ {c}]
    IN  CASE c.api = "validate" ->
               \* handleValidateReceiver
               [d EXCEPT !.validation = IF r.ok THEN Validation(c, r) ELSE null,
                         !.validationLoading = FALSE]
          [] c.api = "initiate" ->
               \* handleTransferSubmit
               IF ~r.ok THEN [d EXCEPT !.transferLoading = FALSE]
               ELSE IF r.force_logout
               THEN [d EXCEPT !.accessToken = "", !.transferLoading = FALSE]
               ELSE IF r.mfa_required
               THEN [d EXCEPT !.pendingTransferId = TransferId,
                              !.otpModalOpen = TRUE,
                              !.mfaLoading = TRUE,
                              !.net = @ \cup {ApiCall("challenge", "handleTransferSubmit",
                                                   TransferId, "", "", 0)}]
               ELSE resetTransferForm(
                      [d EXCEPT !.successModalPayload = SuccessPayload,
                                !.sendModalOpen = FALSE,
                                !.net = @ \cup {LoadCall("handleTransferSubmit")}])
          [] c.api = "challenge" ->
               \* requestMfaChallenge, and the caller that awaits it
               [d EXCEPT !.pendingTransferId = IF r.ok THEN c.transfer_id ELSE @,
                         !.mfaLoading = FALSE,
                         !.net = IF c.handler = "handleTransferSubmit"
                                 THEN @ \cup {LoadCall("handleTransferSubmit")}
                                 ELSE @]
          [] c.api = "verify" ->
               \* handleVerifyOtp
               IF ~r.ok THEN [d EXCEPT !.mfaLoading = FALSE]
               ELSE IF r.force_logout
               THEN [d EXCEPT !.accessToken = "", !.mfaLoading = FALSE]
               ELSE resetTransferForm(
                      [d EXCEPT !.otpModalOpen = FALSE,
                                !.pendingTransferId = "",
                                !.mfaCode = "",
                                !.successModalPayload = SuccessPayload,
                                !.sendModalOpen = FALSE,
                                !.net = @ \cup {LoadCall("handleVerifyOtp")}])
          [] OTHER ->
               \* the finally block of the handler that awaited the loads
               IF c.handler = "handleTransferSubmit"
               THEN [d EXCEPT !.transferLoading = FALSE]
               ELSE [d EXCEPT !.mfaLoading = FALSE]

DashboardResume(c, r) ==
    /\ c \in dash.net
    /\ r \in Answers(c.api)
    /\ DashboardSet(DashboardAfter(c, r))

\* The backend at rest, for the specifications of the frontend alone.
InitBackendIdle ==
    /\ balance = [a \in Accounts |-> 0]
    /\ transfers = <<>>
    /\ ledger = <<>>
    /\ lockAcct = [a \in Accounts |-> 0]
    /\ lockXfer = <<>>
    /\ pc = [p \in Procs |-> "idle"]
    /\ args = [p \in Procs |-> NoArgs]
    /\ locals = [p \in Procs |-> NoLocals]
    /\ tx = [p \in Procs |-> NoWrites]
    /\ err = [p \in Procs |-> ""]
    /\ result = [p \in Procs |-> NoResult]
    /\ opening = balance
    /\ is_active = [a \in Accounts |-> TRUE]
    /\ challenges = <<>>
    /\ now = 0
    /\ request = [p \in Procs |-> NoRequest]
    /\ seed_runs = 0

InitClients ==
    /\ InitBackendIdle
    /\ app = AppMounted
    /\ dash = DashboardMounted
    /\ InitPages

NextDashboard ==
    \/ DashboardOpenSend
    \/ DashboardCloseSend
    \/ \E text \in AccountTexts : DashboardEditAccount(text)
    \/ \E text \in BankTexts : DashboardEditBank(text)
    \/ \E text \in AmountTexts : DashboardEditAmount(text)
    \/ DashboardValidateReceiver
    \/ DashboardTransferSubmit
    \/ DashboardCloseOtp
    \/ \E text \in CodeTexts : DashboardEditOtp(text)
    \/ DashboardResendOtp
    \/ DashboardVerifyOtp
    \/ DashboardCloseSuccess
    \/ \E c \in dash.net : \E r \in Answers(c.api) : DashboardResume(c, r)

SpecDashboard == InitClients /\ [][NextDashboard]_vars

\* The calls of an API that a step of a client sends.
Sent(before, after, api) == {c \in after.net \ before.net : c.api = api}

\* C29: in UserDashboard, an initiate-transfer request is sent only for a
\* receiver account number and bank code that the server validated as
\* existing with exactly those values: whenever a step sends the request, the
\* stored validation response says exists and is the answer to a
\* validate-receiver request for the account number and bank code being sent.
C29_SendsOnlyValidatedReceiver ==
    [][\A c \in Sent(dash, dash', "initiate") :
          /\ Exists(dash.validation)
          /\ dash.validation.account_number = c.receiver_account_number
          /\ dash.validation.bank_code = c.receiver_bank_code
      ]_vars


\* ------------------------------------------------------------------ App.tsx
AppOnly ==
    UNCHANGED <<balance, transfers, ledger, lockAcct, lockXfer, pc, args,
                locals, tx, err, result, opening, is_active, challenges, now,
                request, seed_runs, dash, probe, appState, adminRow, toasts>>

AppSet(next) == app' = next /\ AppOnly

\* The TransferInitiateResponse as the component stores it in transferResult.
TransferResult(r) ==
    [mfa_required |-> r.mfa_required, force_logout |-> r.force_logout]

MfaChallenge == [transfer_id |-> TransferId]

\* clearTransferWorkflowState
clearTransferWorkflowState(a) ==
    [a EXCEPT !.receiverValidation = null,
              !.transferResult = null,
              !.transferError = "",
              !.pendingMfaTransferId = "",
              !.mfaCode = "",
              !.mfaChallenge = null]

\* handleSignOut: supabase.auth.signOut(), upon which the auth listener sets
\* the session to null, and the setters after it.
handleSignOut(a) ==
    [a EXCEPT !.session = "",
              !.receiverValidation = null,
              !.transferResult = null,
              !.transferError = "",
              !.pendingMfaTransferId = "",
              !.mfaCode = "",
              !.mfaChallenge = null]

AppInputsNeverDisabled == FALSE

\* The effect on session?.access_token, which runs after a render in which
\* the token has changed: it empties the dashboard and the history, or loads
\* them.
Dashboard == [account |-> "own"]

sessionEffect(a) ==
    IF a.session = ""
    THEN [a EXCEPT !.dashboard = null]
    ELSE [a EXCEPT !.net = @ \cup {LoadCall("useEffect")}]

\* disabled={transferLoading || validationLoading} of the four inputs of the
\* Send Money form.
AppInputsDisabled == app.transferLoading \/ app.validationLoading

\* The banking page is rendered while there is a session, and the auth panel
\* while there is none. The sign-out button; and handleSignIn and
\* handleSignUp up to their await, from the auth panel's buttons, which are
\* disabled while authLoading.
AppSignOut ==
    /\ app.session # ""
    /\ AppSet(sessionEffect(handleSignOut(app)))

AppSignIn(api) ==
    /\ app.session = "" /\ ~app.authLoading
    /\ Cardinality(app.net) < MaxInFlight
    /\ AppSet([app EXCEPT !.authLoading = TRUE,
                          !.net = @ \cup {ApiCall(api, "handleSignIn", "", "", "", 0)}])

\* onChange of "Receiver Bank Code", "Receiver Account Number" and "Amount".
AppEditBank(text) ==
    /\ app.session # "" /\ ~AppInputsDisabled
    /\ text # app.receiverBankCode
    /\ AppSet(clearTransferWorkflowState([app EXCEPT !.receiverBankCode = text]))

AppEditAccount(text) ==
    /\ app.session # "" /\ ~AppInputsDisabled
    /\ text # app.receiverAccountNumber
    /\ AppSet(clearTransferWorkflowState([app EXCEPT !.receiverAccountNumber = text]))

AppEditAmount(text) ==
    /\ app.session # "" /\ ~AppInputsDisabled
    /\ text # app.amount
    /\ AppSet([app EXCEPT !.amount = text])

\* handleValidateReceiver up to its await, from the button "Validate
\* Receiver".
AppValidateReceiver ==
    /\ app.session # ""
    /\ ~(app.validationLoading \/ app.transferLoading
           \/ Trim(app.receiverAccountNumber) = "")
    /\ Cardinality(app.net) < MaxInFlight
    /\ AppSet([app EXCEPT !.validationLoading = TRUE,
                          !.transferError = "",
                          !.net = @ \cup {ApiCall("validate", "handleValidateReceiver", "",
                                                  Trim(app.receiverAccountNumber),
                                                  Trim(app.receiverBankCode), 0)}])

\* handleInitiateTransfer up to its await, from the button "Initiate
\* Transfer".
AppInitiateTransfer ==
    /\ app.session # ""
    /\ ~(app.transferLoading \/ ~Exists(app.receiverValidation))
    /\ Cardinality(app.net) < MaxInFlight
    /\ IF app.session = ""
       THEN AppSet([app EXCEPT !.transferError = "No active user session. Please sign in again."])
       ELSE IF AmountRejected(app.amount)
       THEN AppSet([app EXCEPT !.transferError = "Amount must be greater than zero."])
       ELSE IF ~Exists(app.receiverValidation)
       THEN AppSet([app EXCEPT !.transferError = "Validate receiver account before initiating transfer."])
       ELSE AppSet([app EXCEPT !.transferLoading = TRUE,
                               !.transferError = "",
                               !.transferResult = null,
                               !.net = @ \cup {ApiCall("initiate", "handleInitiateTransfer", "",
                                                       Trim(app.receiverAccountNumber),
                                                       Trim(app.receiverBankCode),
                                                       Number(app.amount).value)}])

\* The MFA panel, rendered while pendingMfaTransferId is set: its input,
\* "Resend Code" (handleRequestMfaChallenge up to its await) and "Verify &
\* Complete Transfer" (handleVerifyMfa up to its await).
AppEditMfaCode(text) ==
    /\ app.session # "" /\ app.pendingMfaTransferId # ""
    /\ ~app.mfaVerifyLoading
    /\ text # app.mfaCode
    /\ AppSet([app EXCEPT !.mfaCode = text])

AppResendCode ==
    /\ app.session # "" /\ app.pendingMfaTransferId # ""
    /\ ~(app.mfaChallengeLoading \/ app.mfaVerifyLoading)
    /\ Cardinality(app.net) < MaxInFlight
    /\ IF Trim(app.pendingMfaTransferId) = ""
       THEN AppSet(app)
       ELSE AppSet([app EXCEPT !.mfaChallengeLoading = TRUE,
                               !.net = @ \cup {ApiCall("challenge", "handleRequestMfaChallenge",
                                                       Trim(app.pendingMfaTransferId),
                                                       "", "", 0)}])

AppVerifyMfa ==
    /\ app.session # "" /\ app.pendingMfaTransferId # ""
    /\ ~app.mfaVerifyLoading
    /\ Cardinality(app.net) < MaxInFlight
    /\ IF Trim(app.pendingMfaTransferId) = "" \/ Trim(app.mfaCode) = ""
       THEN AppSet(app)
       ELSE AppSet([app EXCEPT !.mfaVerifyLoading = TRUE,
                               !.net = @ \cup {ApiCall("verify", "handleVerifyMfa",
                                                       Trim(app.pendingMfaTransferId),
                                                       "", "", 0)}])

\* The rest of a handler, from the await that the response r to the call c
\* resolves. The handler keeps the session it was called with.
AppAfter(c, r) ==
    LET a == [app EXCEPT !.net = @ \ {c}]
    IN  CASE c.api = "validate" ->
               \* handleValidateReceiver
               IF r.ok
               THEN [a EXCEPT !.receiverValidation = Validation(c, r),
                              !.validationLoading = FALSE]
               ELSE [a EXCEPT !.receiverValidation = null,
                              !.transferError = "Receiver validation failed.",
                              !.validationLoading = FALSE]
          [] c.api = "initiate" ->
               \* handleInitiateTransfer
               IF ~r.ok
               THEN [a EXCEPT !.transferError = "Transfer initiation failed.",
                              !.transferLoading = FALSE]
               ELSE IF r.force_logout
               THEN [sessionEffect(handleSignOut(a)) EXCEPT !.transferLoading = FALSE]
               ELSE IF r.mfa_required
               THEN [a EXCEPT !.transferResult = TransferResult(r),
                              !.pendingMfaTransferId = TransferId,
                              !.mfaChallengeLoading = TRUE,
                              !.net = @ \cup {ApiCall("challenge", "handleInitiateTransfer",
                                                      TransferId, "", "", 0)}]
               ELSE [a EXCEPT !.transferResult = TransferResult(r),
                              !.pendingMfaTransferId = "",
                              !.mfaChallenge = null,
                              !.net = @ \cup {LoadCall("handleInitiateTransfer")}]
          [] c.api = "challenge" ->
               \* handleRequestMfaChallenge, silent when handleInitiateTransfer
               \* awaits it, and the caller that awaits it
               LET b == [a EXCEPT !.mfaChallengeLoading = FALSE,
                                  !.net = IF c.handler = "handleInitiateTransfer"
                                          THEN @ \cup {LoadCall("handleInitiateTransfer")}
                                          ELSE @]
               IN  IF r.ok
                   THEN [b EXCEPT !.pendingMfaTransferId = c.transfer_id,
                                  !.mfaChallenge = MfaChallenge,
                                  !.transferError = ""]
                   ELSE IF c.handler = "handleInitiateTransfer" THEN b
                   ELSE [b EXCEPT !.transferError = "Failed to request MFA challenge."]
          [] c.api = "verify" ->
               \* handleVerifyMfa
               IF ~r.ok THEN [a EXCEPT !.mfaVerifyLoading = FALSE]
               ELSE [a EXCEPT !.transferResult = TransferResult(r),
                              !.pendingMfaTransferId = "",
                              !.mfaCode = "",
                              !.mfaChallenge = null,
                              !.net = @ \cup {LoadCall("handleVerifyMfa")}]
          [] c.api \in {"signInWithPassword", "signUp"} ->
               \* handleSignIn, handleSignUp: no try around the await, so a
               \* rejection ends the handler there. On success the auth
               \* listener has set the session.
               IF ~r.ok THEN a
               ELSE IF r.status = "error" THEN [a EXCEPT !.authLoading = FALSE]
               ELSE [sessionEffect([a EXCEPT !.session = SessionToken])
                       EXCEPT !.authLoading = FALSE]
          [] OTHER ->
               \* loadDashboardAndHistory, and the finally block of the
               \* handler that awaited it
               LET b == IF r.ok THEN [a EXCEPT !.dashboard = Dashboard] ELSE a
               IN  IF c.handler = "handleInitiateTransfer"
                   THEN [b EXCEPT !.transferLoading = FALSE]
                   ELSE IF c.handler = "handleVerifyMfa"
                   THEN [b EXCEPT !.mfaVerifyLoading = FALSE]
                   ELSE b

AppResume(c, r) ==
    /\ c \in app.net
    /\ r \in Answers(c.api)
    /\ AppSet(AppAfter(c, r))

NextApp ==
    \/ AppSignOut
    \/ \E api \in {"signInWithPassword", "signUp"} : AppSignIn(api)
    \/ \E text \in BankTexts : AppEditBank(text)
    \/ \E text \in AccountTexts : AppEditAccount(text)
    \/ \E text \in AmountTexts : AppEditAmount(text)
    \/ AppValidateReceiver
    \/ AppInitiateTransfer
    \/ \E text \in CodeTexts : AppEditMfaCode(text)
    \/ AppResendCode
    \/ AppVerifyMfa
    \/ \E c \in app.net : \E r \in Answers(c.api) : AppResume(c, r)

SpecApp == InitClients /\ [][NextApp]_vars

\* A response to an initiate-transfer or MFA-verify call that carries
\* force_logout = true.
ForceLogout(c, r) ==
    /\ c.api \in {"initiate", "verify"}
    /\ r \in Answers(c.api)
    /\ r.ok /\ r.force_logout

\* UserDashboard's handling of such a response: handleTransferSubmit and
\* handleVerifyOtp call onLogout and return.
DashboardObeysForceLogout ==
    \A c \in dash.net : \A r \in Answers(c.api) :
        ForceLogout(c, r) /\ DashboardResume(c, r) =>
            /\ dash'.accessToken = ""
            /\ dash'.net \subseteq dash.net
            /\ dash'.successModalPayload = dash.successModalPayload

\* App.tsx's handling of such a response.
AppObeysForceLogout ==
    \A c \in app.net : \A r \in Answers(c.api) :
        ForceLogout(c, r) /\ AppResume(c, r) =>
            /\ app'.session = ""
            /\ app'.net \subseteq app.net
            /\ app'.transferResult = null

\* C23: when the response to an initiate-transfer or MFA-verify call carries
\* force_logout = true, the step of the client that handles it ends the
\* session, sends no call (no MFA challenge request, no reload of the
\* dashboard) and shows no receipt for the response.
C23_ForceLogoutObeyed ==
    [][DashboardObeysForceLogout /\ AppObeysForceLogout]_vars

\* C30: App.tsx sends an initiate-transfer call only in a step taken with a
\* session, an amount that converts to a finite number above zero, and a
\* stored validation response that says exists and answers a request for the
\* current (trimmed) account number and bank code; every step that changes
\* the bank code or the account number leaves no validation, no pending MFA
\* transfer, no MFA code and no MFA challenge; and a submission that the
\* handler rejects sends no call and changes nothing but the error message.
C30_InitiateOnlyWhenValid ==
    [][/\ \A c \in Sent(app, app', "initiate") :
             /\ app.session # ""
             /\ Number(app.amount).finite /\ Number(app.amount).value > 0
             /\ c.amount = Number(app.amount).value
             /\ Exists(app.receiverValidation)
             /\ app.receiverValidation.account_number = Trim(app.receiverAccountNumber)
             /\ app.receiverValidation.bank_code = Trim(app.receiverBankCode)
             /\ c.receiver_account_number = Trim(app.receiverAccountNumber)
             /\ c.receiver_bank_code = Trim(app.receiverBankCode)
       /\ (\/ app'.receiverBankCode # app.receiverBankCode
           \/ app'.receiverAccountNumber # app.receiverAccountNumber) =>
             /\ app'.receiverValidation = null
             /\ app'.pendingMfaTransferId = ""
             /\ app'.mfaCode = ""
             /\ app'.mfaChallenge = null
       /\ (AppInitiateTransfer /\ AmountRejected(app.amount)) =>
             /\ app'.net = app.net
             /\ app' = [app EXCEPT !.transferError = app'.transferError]
      ]_vars

\* C30 witness: a transfer to a receiver that the user typed and validated
\* has been initiated and answered, and a later submission with an amount
\* that is not above zero has been rejected, leaving the validation and the
\* earlier result in place.
C30_Witness ==
    /\ app.session # ""
    /\ app.net = {}
    /\ app.transferError = "Amount must be greater than zero."
    /\ AmountRejected(app.amount)
    /\ Exists(app.receiverValidation)
    /\ app.receiverValidation.account_number = "1111"
    /\ app.receiverValidation.bank_code = "OTHERBANK"
    /\ app.transferResult # null

\* C31: UserDashboard opens the success modal only for a transfer whose
\* returned status is COMPLETED: the step that handles an initiate-transfer or
\* MFA-verify response with any other status (REJECTED_INSUFFICIENT_FUNDS or
\* FAILED among them) does not open the modal.
C31_SuccessOnlyWhenCompleted ==
    [][\A c \in dash.net : \A r \in Answers(c.api) :
          (/\ c.api \in {"initiate", "verify"}
           /\ r.ok /\ r.status # "COMPLETED"
           /\ dash.successModalPayload = null
           /\ DashboardResume(c, r)) =>
              dash'.successModalPayload = null
      ]_vars

\* C32: in App.tsx, whenever there is no session and no request is in
\* flight, dashboard is null: no dashboard response that arrives after the
\* sign-out is stored.
C32_NoDashboardWithoutSession ==
    (app.session = "" /\ app.net = {}) => app.dashboard = null

\* The functions of App.tsx that await a call.
AppHandlers ==
    {"useEffect", "handleSignIn", "handleValidateReceiver",
     "handleInitiateTransfer", "handleRequestMfaChallenge", "handleVerifyMfa"}

\* Every call in flight settles: for each handler, the continuation of the
\* call it awaits eventually runs, with whatever outcome.
AppSettles(handler) ==
    \E c \in app.net : \E r \in Answers(c.api) :
        c.handler = handler /\ AppResume(c, r)

SpecAppLive ==
    /\ InitClients
    /\ [][NextApp]_vars
    /\ \A handler \in AppHandlers : WF_vars(AppSettles(handler))

\* The loading flags of App.tsx, other than authLoading, return to false.
AppOtherFlagsReturn ==
    /\ app.transferLoading ~> ~app.transferLoading
    /\ app.validationLoading ~> ~app.validationLoading
    /\ app.mfaChallengeLoading ~> ~app.mfaChallengeLoading
    /\ app.mfaVerifyLoading ~> ~app.mfaVerifyLoading

\* C33: every loading flag that a handler of App.tsx sets eventually returns
\* to false, given that every request settles (succeeds, returns an error or
\* rejects): authLoading, transferLoading, validationLoading,
\* mfaChallengeLoading and mfaVerifyLoading.
C33_LoadingFlagsReturn ==
    /\ app.authLoading ~> ~app.authLoading
    /\ AppOtherFlagsReturn

\* ===================================================== services/adminApi.ts
\* The keys validateAdminApiKey is called with, and what fetch can do with the
\* probe: reject (network error), or resolve to a response with a status and a
\* body that is JSON or is not.
AdminKeys == {"", "  ", "k1", " k1 ", "k2", "k3", "k4"}
HttpStatuses == {200, 201, 204, 400, 401, 403, 404, 422, 500, 503}

FetchOutcomes ==
    {[network_error |-> TRUE, status |-> 0, json |-> FALSE]} \cup
    {[network_error |-> FALSE, status |-> st, json |-> j] :
        st \in HttpStatuses, j \in BOOLEAN}

\* adminApiKey.trim() on the keys above.
TrimKey(key) ==
    IF key = "  " THEN "" ELSE IF key = " k1 " THEN "k1" ELSE key

\* Response.ok
ResponseOk(status) == status >= 200 /\ status <= 299

\* requestJson: how its promise settles. It rejects with what fetch rejected
\* with, with the ApiError of parseError (which carries response.status
\* whether or not the body parses) when the response is not ok, and with the
\* SyntaxError of response.json() when the body of an ok response is no JSON.
requestJson(o) ==
    IF o.network_error THEN [resolved |-> FALSE, ApiError |-> FALSE, status |-> 0]
    ELSE IF ~ResponseOk(o.status)
    THEN [resolved |-> FALSE, ApiError |-> TRUE, status |-> o.status]
    ELSE IF o.json THEN [resolved |-> TRUE, ApiError |-> FALSE, status |-> 0]
    ELSE [resolved |-> FALSE, ApiError |-> FALSE, status |-> 0]

ReturnsOnSuccessOnly(settlement) == settlement.resolved

\* validateAdminApiKey from its await on: true after the try block, true in
\* the catch block for an ApiError with status 400, false otherwise.
ReturnsAfter(settlement) ==
    settlement.resolved \/ (settlement.ApiError /\ settlement.status = 400)

PagesOnly ==
    UNCHANGED <<balance, transfers, ledger, lockAcct, lockXfer, pc, args,
                locals, tx, err, result, opening, is_active, challenges, now,
                request, seed_runs, app, dash>>

\* validateAdminApiKey up to its await: a blank key returns false at once.
validateAdminApiKey(key) ==
    /\ ~probe.called
    /\ probe' = IF TrimKey(key) = ""
                THEN [probe EXCEPT !.adminApiKey = key, !.called = TRUE,
                                   !.settled = TRUE, !.returned = FALSE]
                ELSE [probe EXCEPT !.adminApiKey = key, !.called = TRUE,
                                   !.sent = TRUE]
    /\ UNCHANGED <<appState, adminRow, toasts>>
    /\ PagesOnly

\* The probe settles and validateAdminApiKey returns.
ProbeSettles(o) ==
    /\ probe.sent /\ ~probe.settled
    /\ probe' = [probe EXCEPT !.outcome = o, !.settled = TRUE,
                              !.returned = ReturnsAfter(requestJson(o))]
    /\ UNCHANGED <<appState, adminRow, toasts>>
    /\ PagesOnly

NextAdminKey ==
    \/ \E key \in AdminKeys : validateAdminApiKey(key)
    \/ \E o \in FetchOutcomes : ProbeSettles(o)

SpecAdminKey == InitClients /\ [][NextAdminKey]_vars

\* C34: validateAdminApiKey returns true exactly when the key is not blank
\* and the probe either succeeds (an answer with a 2xx status and a JSON
\* body) or is answered with status 400; for a blank key it returns false and
\* no request has been sent.
C34_TrueIffSuccessOr400 ==
    probe.settled =>
        LET blank == probe.adminApiKey \in {"", "  "}
            o == probe.outcome
            succeeded == /\ ~o.network_error
                         /\ o.status \in {200, 201, 204}
                         /\ o.json
            status400 == ~o.network_error /\ o.status = 400
        IN  /\ probe.returned <=> (~blank /\ (succeeded \/ status400))
            /\ blank => ~probe.sent

\* C34 witness: a key with surrounding blanks was probed, the answer was a 400
\* without a JSON body, and the function returned true.
C34_Witness ==
    /\ probe.settled /\ probe.sent
    /\ probe.adminApiKey = " k1 "
    /\ probe.outcome.status = 400 /\ ~probe.outcome.json
    /\ probe.returned

\* ================================================ state/AppStateContext.tsx
\* The payloads of SET_USER_SESSION and of SET_ADMIN_SESSION, and the longest
\* sequence of actions dispatched.
Sessions == {[access_token |-> "token"], [access_token |-> "token-2"]}
MaxDispatches == 3

reducerKeepingSession(state, type, payload) ==
    CASE type = "SET_SESSION_LOADING" -> [state EXCEPT !.sessionLoading = payload]
      [] type = "SET_USER_SESSION" ->
            [state EXCEPT !.role = IF payload # null THEN "user" ELSE "guest",
                          !.session = payload,
                          !.adminApiKey = null]
      [] type = "SET_ADMIN_SESSION" ->
            [state EXCEPT !.role = "admin",
                          !.adminApiKey = [key |-> payload],
                          !.sessionLoading = FALSE]
      [] type = "LOGOUT" ->
            [state EXCEPT !.role = "guest",
                          !.session = null,
                          !.adminApiKey = null,
                          !.sessionLoading = FALSE]
      [] OTHER -> state

\* reducer
reducer(state, type, payload) ==
    CASE type = "SET_SESSION_LOADING" -> [state EXCEPT !.sessionLoading = payload]
      [] type = "SET_USER_SESSION" ->
            [state EXCEPT !.role = IF payload # null THEN "user" ELSE "guest",
                          !.session = payload,
                          !.adminApiKey = null]
      [] type = "SET_ADMIN_SESSION" ->
            [state EXCEPT !.role = "admin",
                          !.adminApiKey = [key |-> payload],
                          !.session = null,
                          !.sessionLoading = FALSE]
      [] type = "LOGOUT" ->
            [state EXCEPT !.role = "guest",
                          !.session = null,
                          !.adminApiKey = null,
                          !.sessionLoading = FALSE]
      [] OTHER -> state

\* dispatch of useReducer
dispatch(type, payload) ==
    /\ Len(appState.dispatched) < MaxDispatches
    /\ appState' = [state |-> reducer(appState.state, type, payload),
                    dispatched |-> Append(appState.dispatched, type)]
    /\ UNCHANGED <<probe, adminRow, toasts>>
    /\ PagesOnly

NextAppState ==
    \/ \E payload \in BOOLEAN : dispatch("SET_SESSION_LOADING", payload)
    \/ \E payload \in Sessions \cup {null} : dispatch("SET_USER_SESSION", payload)
    \/ \E payload \in AdminKeys : dispatch("SET_ADMIN_SESSION", payload)
    \/ dispatch("LOGOUT", null)

SpecAppState == InitClients /\ [][NextAppState]_vars

\* The action type a step dispatches.
DispatchesType(type) ==
    /\ appState'.dispatched # appState.dispatched
    /\ appState'.dispatched[Len(appState'.dispatched)] = type

\* C35: after any sequence of reducer actions from the initial state, role is
\* "user" exactly when session is not null, "admin" implies a non-null
\* adminApiKey and a null session, "guest" implies both null, and the two are
\* never both non-null; SET_SESSION_LOADING changes only sessionLoading, and
\* LOGOUT yields guest, null session, null adminApiKey, sessionLoading false.
C35_RoleMatchesCredentials ==
    /\ [](LET st == appState.state
          IN  /\ (st.role = "user") <=> (st.session # null)
              /\ st.role = "admin" => (st.adminApiKey # null /\ st.session = null)
              /\ st.role = "guest" => (st.adminApiKey = null /\ st.session = null)
              /\ ~(st.session # null /\ st.adminApiKey # null))
    /\ [][/\ DispatchesType("SET_SESSION_LOADING") =>
                appState'.state = [appState.state EXCEPT
                                     !.sessionLoading = appState'.state.sessionLoading]
          /\ DispatchesType("LOGOUT") =>
                appState'.state = [role |-> "guest", session |-> null,
                                   adminApiKey |-> null, sessionLoading |-> FALSE]
         ]_vars

\* C35 witness: a user session was replaced by an admin session with an empty
\* key, and the loading flag was set again afterwards.
C35_Witness ==
    /\ appState.dispatched = <<"SET_USER_SESSION", "SET_ADMIN_SESSION", "SET_SESSION_LOADING">>
    /\ appState.state.role = "admin"
    /\ appState.state.adminApiKey = [key |-> ""]
    /\ appState.state.session = null
    /\ appState.state.sessionLoading

\* ===================================================== the admin risk badge
\* Risk scores are probabilities in hundredths, 0.00 to 1.00.
MaxScore == 100
Scores == 0..MaxScore

\* A row's risk_score: null or a number.
RiskScore(hundredths) == [hundredths |-> hundredths]

\* The gateway's thresholds (Policy A: LOW < 0.30, HIGH >= 0.70) and its
\* discretization.
low_max == 30
high_min == 70

GatewayRiskLevel(probability) ==
    IF probability < low_max THEN "LOW"
    ELSE IF probability >= high_min THEN "HIGH"
    ELSE "MEDIUM"

\* mapTransferRisk
mapTransferRisk(riskScore) ==
    IF riskScore = null THEN "N/A"
    ELSE IF riskScore.hundredths <= 10 THEN "LOW"
    ELSE IF riskScore.hundredths <= 50 THEN "MEDIUM"
    ELSE "HIGH"

\* The level AdminPanel's "Risk Score" column passes to riskBadgeClass; "" is
\* null.
AdminPanelBadge(risk_score) ==
    IF risk_score # null
    THEN (IF risk_score.hundredths > 50 THEN "HIGH"
          ELSE IF risk_score.hundredths > 10 THEN "MEDIUM"
          ELSE "LOW")
    ELSE ""

\* The admin panel renders a transfer row.
RenderRow(risk_score) ==
    /\ adminRow' = [risk_score |-> risk_score, rendered |-> TRUE,
                    risk |-> mapTransferRisk(risk_score),
                    badge |-> AdminPanelBadge(risk_score)]
    /\ UNCHANGED <<probe, appState, toasts>>
    /\ PagesOnly

NextAdminRow ==
    \E risk_score \in {RiskScore(v) : v \in Scores} \cup {null} :
        RenderRow(risk_score)

SpecAdminRow == InitClients /\ [][NextAdminRow]_vars

\* C36: for every risk score, the bucket of mapTransferRisk and the level of
\* the AdminPanel badge agree with each other and equal the risk level the
\* gateway assigns to that probability with the thresholds 0.30 and 0.70.
C36_BadgeMatchesGateway ==
    (adminRow.rendered /\ adminRow.risk_score # null) =>
        /\ adminRow.risk = adminRow.badge
        /\ adminRow.risk = GatewayRiskLevel(adminRow.risk_score.hundredths)

\* The two renderings of the admin UI agree on every score.
AdminBucketsAgree ==
    (adminRow.rendered /\ adminRow.risk_score # null) =>
        adminRow.risk = adminRow.badge

\* ============================================================ ToastProvider
\* Time is counted in milliseconds and advances by TickMs; at most MaxToasts
\* toasts are pushed, none later than its timeout before MaxClock.
MaxToasts == 3
TickMs == 1000
MaxClock == 6000

ToastKinds == {"info", "success", "error"}

\* pushToast's default timeoutMs and the timeouts a caller passes.
DefaultTimeoutMs == 3000
TimeoutsMs == {TickMs, DefaultTimeoutMs}

\* createId: an id no earlier toast has (a UUID, or the time with a random
\* suffix); the model numbers the toasts in push order.
createId == toasts.pushed + 1

removeToastsOfKind(prev, id) ==
    LET kinds == {prev[i].kind : i \in {j \in DOMAIN prev : prev[j].id = id}}
    IN  SelectSeq(prev, LAMBDA toast : toast.kind \notin kinds)

\* The timer's update of the list: prev.filter((toast) => toast.id !== id)
removeToast(prev, id) == SelectSeq(prev, LAMBDA toast : toast.id # id)

\* pushToast(message, kind, timeoutMs): appends the toast and starts its
\* timer.
pushToast(kind, timeoutMs) ==
    /\ toasts.pushed < MaxToasts
    /\ toasts.clock + timeoutMs <= MaxClock
    /\ LET id == createId
       IN  toasts' = [toasts EXCEPT
               !.list = Append(@, [id |-> id, kind |-> kind]),
               !.timers = @ \cup {[id |-> id, due |-> toasts.clock + timeoutMs]},
               !.pushed = id]
    /\ UNCHANGED <<probe, appState, adminRow>>
    /\ PagesOnly

\* The callback of window.setTimeout runs, not before its delay has passed.
ToastTimeout(timer) ==
    /\ timer \in toasts.timers
    /\ timer.due <= toasts.clock
    /\ toasts' = [toasts EXCEPT !.list = removeToast(@, timer.id),
                                !.timers = @ \ {timer}]
    /\ UNCHANGED <<probe, appState, adminRow>>
    /\ PagesOnly

\* Time passes.
ToastTick ==
    /\ toasts.clock < MaxClock
    /\ toasts' = [toasts EXCEPT !.clock = @ + TickMs]
    /\ UNCHANGED <<probe, appState, adminRow>>
    /\ PagesOnly

\* The timers pushToast can start.
ToastTimers ==
    {[id |-> id, due |-> k * TickMs] :
        id \in 1..MaxToasts, k \in 0..(MaxClock \div TickMs)}

NextToast ==
    \/ \E kind \in ToastKinds, timeoutMs \in TimeoutsMs : pushToast(kind, timeoutMs)
    \/ \E timer \in ToastTimers : ToastTimeout(timer)
    \/ ToastTick

SpecToast == InitClients /\ [][NextToast]_vars

\* Time keeps passing and a timer whose delay has passed runs its callback.
SpecToastLive ==
    /\ SpecToast
    /\ WF_vars(ToastTick)
    /\ \A id \in 1..MaxToasts :
           WF_vars(\E timer \in toasts.timers : timer.id = id /\ ToastTimeout(timer))

ToastIds(list) == {list[i].id : i \in DOMAIN list}

\* C37: every toast pushed by pushToast is removed after its timeout (it is
\* shown until its timeout has passed and is eventually removed), its removal
\* removes no other toast, toasts are kept in push order, and when all timers
\* have fired the toast list is empty.
C37_ToastsExpire ==
    /\ [](/\ \A i, j \in DOMAIN toasts.list :
                 i < j => toasts.list[i].id < toasts.list[j].id
          /\ \A timer \in toasts.timers : timer.id \in ToastIds(toasts.list)
          /\ \A id \in ToastIds(toasts.list) :
                 \E timer \in toasts.timers : timer.id = id
          /\ toasts.timers = {} => toasts.list = <<>>)
    /\ [][\A timer \in toasts.timers :
              ToastTimeout(timer) =>
                  /\ timer.due <= toasts.clock
                  /\ ToastIds(toasts'.list) = ToastIds(toasts.list) \ {timer.id}
                  /\ Len(toasts'.list) = Len(toasts.list) - 1]_vars
    /\ \A id \in 1..MaxToasts :
           (id \in ToastIds(toasts.list)) ~> (id \notin ToastIds(toasts.list))

\* C37 witness: three toasts were pushed, two of one kind; the second one,
\* with the shorter timeout, has been removed while the first and the third
\* are still shown.
C37_Witness ==
    /\ toasts.pushed = MaxToasts
    /\ Len(toasts.list) = 2
    /\ toasts.list[1].id = 1 /\ toasts.list[2].id = 3
    /\ toasts.list[1].kind = "error" /\ toasts.list[2].kind = "info"
    /\ \E timer \in toasts.timers : timer.id = 1 /\ timer.due = DefaultTimeoutMs

====
